---------------------------- MODULE Spec2Model ----------------------------
(***************************************************************************)
(* MagicUI backend: the prompt analysis engine (AdvancedNLPEngine,         *)
(* backend/lib/nlp_engine.py) and its caller analyze_prompt_advanced       *)
(* (backend/app/services.py).                                              *)
(*                                                                         *)
(* Numbers: every score of the engine is a multiple of 0.001, so a score   *)
(* is kept as an integer number of thousandths (0.5 is 500, 1.0 is 1000).  *)
(*                                                                         *)
(* Strings: a Python str is a TLA+ string; Len, SubSeq and \o act on its   *)
(* characters.  A prompt is the record [kind, text, pad]: kind "str" is    *)
(* the string `text` followed by `pad` further words PadWord, each after   *)
(* one space; kind "None" is the Python value None passed as the prompt.   *)
(***************************************************************************)
EXTENDS Integers, Sequences, FiniteSets, TLC

(***************************************************************************)
(* Bounds of the model.                                                    *)
(***************************************************************************)
\* the longest text of a prompt, in words of Vocabulary
MaxWords == 2

\* the words a prompt's text is made of
Vocabulary ==
    << "dashboard", "Login", "shop", "contact", "api", "mobile",
       "dark", "bank", "build", "sign", "in" >>

\* the numbers of padding words appended to a text: with one or two words
\* of text the prompt has 1, 2, 10, 11, 25, 26, 50, 51, 100, 101, 120 or
\* 121 words
PadCounts == {0, 9, 24, 49, 99, 119}

\* the padding word: it has one character, which occurs in no keyword
PadWord == "q"

\* the orders list(set(...)) can give: the str hash is seeded per process
HashSeeds == {0, 1}

\* the number of callers that call analyze_prompt side by side
NumCallers == 2

Callers == 1..NumCallers

(***************************************************************************)
(* Python str operations.                                                  *)
(***************************************************************************)
UpperCase == "ABCDEFGHIJKLMNOPQRSTUVWXYZ"
LowerCase == "abcdefghijklmnopqrstuvwxyz"
DigitsAndUnderscore == "0123456789_"

Char(s, i) == SubSeq(s, i, i)

\* the characters of a string
Chars(s) == {Char(s, i) : i \in 1..Len(s)}

\* str.lower() of one character: each upper-case letter's lower-case letter
LowerMap ==
    [c \in Chars(UpperCase) |->
        Char(LowerCase, CHOOSE i \in 1..Len(UpperCase) : Char(UpperCase, i) = c)]

LowerChar(c) == IF c \in DOMAIN LowerMap THEN LowerMap[c] ELSE c

RECURSIVE StrLower(_)
\* str.lower()
StrLower(s) ==
    IF s = "" THEN "" ELSE LowerChar(Head(s)) \o StrLower(Tail(s))

\* the substrings of a string
Substrings(s) ==
    UNION {{SubSeq(s, i, j) : j \in i..Len(s)} : i \in 1..Len(s)} \cup {""}

\* `keyword in s`: substring containment
StrContains(keyword, s) == keyword \in Substrings(s)

\* \s of the regular expression and the separator of str.split()
IsSpace(c) == c = " "

\* \w of the regular expression
WordChars == Chars(LowerCase) \cup Chars(UpperCase) \cup Chars(DigitsAndUnderscore)

IsWordChar(c) == c \in WordChars

RECURSIVE ReSubNonWord(_)
\* re.sub(r'[^\w\s]', ' ', s)
ReSubNonWord(s) ==
    IF s = "" THEN ""
    ELSE (IF IsWordChar(Head(s)) \/ IsSpace(Head(s)) THEN Head(s) ELSE " ")
         \o ReSubNonWord(Tail(s))

RECURSIVE SplitFrom(_, _, _)
\* str.split() with no argument: the maximal runs of non-space characters;
\* `word` is the run being read, `done` the words read so far
SplitFrom(s, word, done) ==
    IF s = ""
    THEN IF word = "" THEN done ELSE Append(done, word)
    ELSE IF IsSpace(Head(s))
         THEN SplitFrom(Tail(s), "", IF word = "" THEN done ELSE Append(done, word))
         ELSE SplitFrom(Tail(s), word \o Head(s), done)

StrSplit(s) == SplitFrom(s, "", <<>>)

RECURSIVE StrJoin(_)
\* ' '.join(words)
StrJoin(words) ==
    IF words = <<>> THEN ""
    ELSE IF Len(words) = 1 THEN words[1]
    ELSE words[1] \o " " \o StrJoin(Tail(words))

(***************************************************************************)
(* Prompts.                                                                *)
(***************************************************************************)
StrPrompt(text, pad) == [kind |-> "str", text |-> text, pad |-> pad]
NonePrompt == [kind |-> "None", text |-> "", pad |-> 0]

\* prompt.lower(), held with its substrings: the text's, since PadWord's
\* character occurs in no keyword and a match lies in the text
PromptLower(prompt) ==
    LET lower == StrLower(prompt.text)
    IN  [str |-> lower, parts |-> Substrings(lower)]

\* `keyword in lower`, for a lower of PromptLower: StrContains(keyword, lower.str)
InLower(keyword, lower) == keyword \in lower.parts

\* len(prompt.split())
WordCount(prompt) == Len(StrSplit(prompt.text)) + prompt.pad

RECURSIVE TextsOf(_)
\* the texts of exactly n words of Vocabulary
TextsOf(n) ==
    IF n = 0 THEN {""}
    ELSE IF n = 1 THEN {Vocabulary[i] : i \in 1..Len(Vocabulary)}
    ELSE {t \o " " \o Vocabulary[i] : t \in TextsOf(n - 1), i \in 1..Len(Vocabulary)}

Texts == UNION {TextsOf(n) : n \in 0..MaxWords}

StrPrompts == {StrPrompt(t, n) : t \in Texts, n \in PadCounts}

Prompts == StrPrompts \cup {NonePrompt}

(***************************************************************************)
(* The knowledge tables built by AdvancedNLPEngine.__init__.  A Python     *)
(* dict is the sequence of its entries in insertion order, each entry      *)
(* carrying its key.  A complexity is in thousandths.                      *)
(***************************************************************************)
_initialize_design_patterns ==
    << [key |-> "authentication",
        components |-> <<"login_form", "social_auth", "password_reset", "two_factor">>,
        layouts |-> <<"centered", "split_screen", "modal">>,
        complexity |-> 600,
        keywords |-> <<"login", "signin", "auth", "authentication", "sign in">>],
       [key |-> "dashboard",
        components |-> <<"sidebar", "header", "stats_cards", "charts", "tables", "notifications">>,
        layouts |-> <<"sidebar_left", "sidebar_right", "top_nav">>,
        complexity |-> 900,
        keywords |-> <<"dashboard", "admin", "panel", "analytics", "stats", "control">>],
       [key |-> "landing",
        components |-> <<"hero", "features", "testimonials", "pricing", "cta", "footer">>,
        layouts |-> <<"single_column", "multi_section", "parallax">>,
        complexity |-> 700,
        keywords |-> <<"landing", "home", "hero", "marketing", "saas", "product">>],
       [key |-> "ecommerce",
        components |-> <<"product_grid", "filters", "cart", "checkout", "reviews">>,
        layouts |-> <<"grid_sidebar", "masonry", "list_view">>,
        complexity |-> 800,
        keywords |-> <<"shop", "store", "ecommerce", "product", "buy", "sell", "cart">>],
       [key |-> "blog",
        components |-> <<"article_list", "sidebar", "search", "categories", "pagination">>,
        layouts |-> <<"two_column", "masonry", "list_view">>,
        complexity |-> 500,
        keywords |-> <<"blog", "article", "post", "news", "content", "writing">>],
       [key |-> "portfolio",
        components |-> <<"project_grid", "hero", "about", "contact", "gallery">>,
        layouts |-> <<"masonry", "grid", "showcase">>,
        complexity |-> 600,
        keywords |-> <<"portfolio", "showcase", "gallery", "work", "projects", "creative">>],
       [key |-> "contact",
        components |-> <<"contact_form", "map", "info_cards", "social_links">>,
        layouts |-> <<"split", "centered", "form_info">>,
        complexity |-> 400,
        keywords |-> <<"contact", "form", "get in touch", "reach out", "inquiry">>] >>

_initialize_style_guides ==
    << [key |-> "glassmorphism",
        characteristics |-> <<"transparency", "blur", "gradient", "modern">>,
        complexity |-> 700,
        suitability |-> <<"landing", "portfolio", "creative">>,
        keywords |-> <<"glass", "glassmorphism", "transparent", "blur", "frosted">>],
       [key |-> "minimalist",
        characteristics |-> <<"clean", "whitespace", "typography", "simple">>,
        complexity |-> 400,
        suitability |-> <<"dashboard", "blog", "corporate">>,
        keywords |-> <<"minimal", "minimalist", "clean", "simple", "white">>],
       [key |-> "brutalist",
        characteristics |-> <<"bold", "geometric", "contrast", "experimental">>,
        complexity |-> 800,
        suitability |-> <<"portfolio", "creative", "artistic">>,
        keywords |-> <<"brutal", "brutalist", "bold", "geometric", "raw">>],
       [key |-> "modern",
        characteristics |-> <<"contemporary", "sleek", "professional", "polished">>,
        complexity |-> 600,
        suitability |-> <<"landing", "corporate", "saas">>,
        keywords |-> <<"modern", "contemporary", "sleek", "professional", "polished">>],
       [key |-> "dark",
        characteristics |-> <<"dark_theme", "contrast", "dramatic", "sophisticated">>,
        complexity |-> 500,
        suitability |-> <<"dashboard", "gaming", "tech">>,
        keywords |-> <<"dark", "night", "black", "shadow", "dramatic">>],
       [key |-> "colorful",
        characteristics |-> <<"vibrant", "energetic", "playful", "bold">>,
        complexity |-> 600,
        suitability |-> <<"creative", "children", "entertainment">>,
        keywords |-> <<"colorful", "vibrant", "bright", "energetic", "playful">>] >>

_initialize_component_library ==
    << [key |-> "forms",
        components |-> <<"input", "textarea", "select", "checkbox", "radio", "button">>,
        keywords |-> <<"form", "input", "field", "submit", "validation">>],
       [key |-> "navigation",
        components |-> <<"navbar", "menu", "breadcrumbs", "pagination", "tabs">>,
        keywords |-> <<"nav", "navigation", "menu", "header", "breadcrumb">>],
       [key |-> "data_display",
        components |-> <<"table", "list", "card", "grid", "carousel">>,
        keywords |-> <<"table", "list", "data", "display", "grid", "carousel">>],
       [key |-> "feedback",
        components |-> <<"alert", "toast", "modal", "tooltip", "progress">>,
        keywords |-> <<"alert", "notification", "modal", "popup", "progress">>],
       [key |-> "media",
        components |-> <<"image", "video", "gallery", "slider", "lightbox">>,
        keywords |-> <<"image", "photo", "video", "gallery", "media">>] >>

_initialize_domain_knowledge ==
    << [key |-> "technology",
        characteristics |-> <<"innovative", "cutting_edge", "efficient", "scalable">>,
        keywords |-> <<"saas", "software", "tech", "ai", "machine learning", "cloud">>,
        audience |-> "developers"],
       [key |-> "finance",
        characteristics |-> <<"trustworthy", "professional", "secure", "reliable">>,
        keywords |-> <<"finance", "bank", "fintech", "investment", "trading", "crypto">>,
        audience |-> "professionals"],
       [key |-> "healthcare",
        characteristics |-> <<"caring", "professional", "accessible", "trustworthy">>,
        keywords |-> <<"health", "medical", "healthcare", "doctor", "patient", "wellness">>,
        audience |-> "patients"],
       [key |-> "education",
        characteristics |-> <<"inspiring", "accessible", "engaging", "supportive">>,
        keywords |-> <<"education", "learning", "course", "school", "university", "training">>,
        audience |-> "students"],
       [key |-> "retail",
        characteristics |-> <<"appealing", "trustworthy", "convenient", "trendy">>,
        keywords |-> <<"retail", "fashion", "commerce", "shopping", "store", "brand">>,
        audience |-> "consumers"],
       [key |-> "entertainment",
        characteristics |-> <<"exciting", "engaging", "fun", "immersive">>,
        keywords |-> <<"entertainment", "gaming", "media", "streaming", "content", "fun">>,
        audience |-> "general"] >>

\* the engine after AdvancedNLPEngine.__init__
NewEngine ==
    [design_patterns |-> _initialize_design_patterns,
     style_guides |-> _initialize_style_guides,
     component_library |-> _initialize_component_library,
     domain_knowledge |-> _initialize_domain_knowledge]

\* the tables _extract_entities, _infer_audience and _infer_personality
\* build on every call
functional_patterns ==
    << [key |-> "responsive", keywords |-> <<"responsive", "mobile", "tablet", "device">>],
       [key |-> "accessible", keywords |-> <<"accessible", "accessibility", "a11y", "wcag">>],
       [key |-> "performance", keywords |-> <<"fast", "performance", "speed", "optimize">>],
       [key |-> "secure", keywords |-> <<"secure", "security", "safe", "ssl">>],
       [key |-> "seo", keywords |-> <<"seo", "search", "google", "optimization">>],
       [key |-> "animations", keywords |-> <<"animation", "motion", "transition", "interactive">>] >>

technical_patterns ==
    << [key |-> "react_nextjs", keywords |-> <<"react", "nextjs", "next.js", "jsx">>],
       [key |-> "typescript", keywords |-> <<"typescript", "ts", "type">>],
       [key |-> "tailwind", keywords |-> <<"tailwind", "css", "styling">>],
       [key |-> "api_integration", keywords |-> <<"api", "backend", "server", "database">>],
       [key |-> "authentication", keywords |-> <<"auth", "login", "user", "session">>] >>

audience_patterns ==
    << [key |-> "professionals", keywords |-> <<"business", "corporate", "professional", "enterprise">>],
       [key |-> "developers", keywords |-> <<"developer", "tech", "programmer", "code">>],
       [key |-> "students", keywords |-> <<"student", "learn", "education", "course">>],
       [key |-> "consumers", keywords |-> <<"customer", "user", "buyer", "consumer">>],
       [key |-> "creatives", keywords |-> <<"artist", "designer", "creative", "portfolio">>] >>

style_personalities ==
    << [key |-> "minimalist", traits |-> <<"sophisticated", "clean", "professional">>],
       [key |-> "brutalist", traits |-> <<"bold", "experimental", "edgy">>],
       [key |-> "glassmorphism", traits |-> <<"modern", "innovative", "elegant">>],
       [key |-> "dark", traits |-> <<"sophisticated", "dramatic", "premium">>],
       [key |-> "colorful", traits |-> <<"energetic", "playful", "vibrant">>] >>

specific_terms == <<"create", "build", "design", "make", "generate">>

(***************************************************************************)
(* Python dict and list operations on the tables.                          *)
(***************************************************************************)
Range(seq) == {seq[i] : i \in 1..Len(seq)}

\* key in d
DictHas(d, key) == \E i \in 1..Len(d) : d[i].key = key

\* d[key], for a key of d
DictGet(d, key) == d[CHOOSE i \in 1..Len(d) : d[i].key = key]

\* whether entry[field] raises KeyError
Lacks(entry, field) == field \notin DOMAIN entry

\* a call's outcome: the value it returns, or the exception it raises
Ok(v) == [exc |-> "", value |-> v]
Raise(e) == [exc |-> e, value |-> <<>>]
Raised(r) == r.exc # ""

RECURSIVE Dedup(_)
\* the distinct elements of a list, each at its first place
Dedup(seq) ==
    IF seq = <<>> THEN <<>>
    ELSE LET rest == Dedup(SubSeq(seq, 1, Len(seq) - 1))
             last == seq[Len(seq)]
         IN  IF last \in Range(rest) THEN rest ELSE Append(rest, last)

Reverse(seq) == [i \in 1..Len(seq) |-> seq[Len(seq) + 1 - i]]

\* ListOfSet without set(...): list(seq)
ListOfList(seq, seed) == seq

\* list(set(seq)): the distinct elements, in the order the process's hash
\* seed gives them
ListOfSet(seq, seed) == IF seed = 0 THEN Dedup(seq) ELSE Reverse(Dedup(seq))

Min(a, b) == IF a <= b THEN a ELSE b

(***************************************************************************)
(* AdvancedNLPEngine: the steps of analyze_prompt.  `self` is the engine   *)
(* (its four tables).                                                      *)
(***************************************************************************)
\* a value that is not a str where the response model wants one
NotAStr == "<None>"

_tokenize_prompt(prompt) ==
    IF prompt.kind = "None"
    THEN Raise("AttributeError")
    ELSE Ok(SelectSeq(StrSplit(ReSubNonWord(PromptLower(prompt).str)),
                      LAMBDA token : Len(token) > 2))

\* the inner loop over one key's keywords, left at the first hit
AnyKeyword(keywords, original_lower) ==
    \E i \in 1..Len(keywords) : InLower(keywords[i], original_lower)

RECURSIVE ScanCatalogPrepend(_, _, _)
\* ScanCatalog with insert(0, key) for append(key)
ScanCatalogPrepend(table, original_lower, found) ==
    IF table = <<>> THEN Ok(found)
    ELSE IF Lacks(Head(table), "keywords") THEN Raise("KeyError")
    ELSE ScanCatalogPrepend(Tail(table), original_lower,
                            IF AnyKeyword(Head(table).keywords, original_lower)
                            THEN <<Head(table).key>> \o found
                            ELSE found)

RECURSIVE ScanCatalogNoBreak(_, _, _)
\* ScanCatalog without the break: the key is appended for each of its
\* keywords that matches
ScanCatalogNoBreak(table, original_lower, found) ==
    IF table = <<>> THEN Ok(found)
    ELSE IF Lacks(Head(table), "keywords") THEN Raise("KeyError")
    ELSE ScanCatalogNoBreak(
             Tail(table), original_lower,
             found \o [i \in 1..Cardinality({k \in 1..Len(Head(table).keywords) :
                                                InLower(Head(table).keywords[k],
                                                        original_lower)})
                           |-> Head(table).key])

RECURSIVE ScanCatalog(_, _, _)
\* the loop over a table's items: `found` is the list appended to so far
ScanCatalog(table, original_lower, found) ==
    IF table = <<>> THEN Ok(found)
    ELSE IF Lacks(Head(table), "keywords") THEN Raise("KeyError")
    ELSE ScanCatalog(Tail(table), original_lower,
                     IF AnyKeyword(Head(table).keywords, original_lower)
                     THEN Append(found, Head(table).key)
                     ELSE found)

\* _extract_entities matching in the text of the joined tokens instead of
\* the lower-cased original prompt
ExtractEntitiesFromTokens(self, tokens, original_prompt) ==
    LET text == StrJoin(tokens)
        original_lower == [str |-> text, parts |-> Substrings(text)]
        page_types == ScanCatalog(self.design_patterns, original_lower, <<>>)
        styles == ScanCatalog(self.style_guides, original_lower, <<>>)
        domains == ScanCatalog(self.domain_knowledge, original_lower, <<>>)
        functional == ScanCatalog(functional_patterns, original_lower, <<>>)
        technical == ScanCatalog(technical_patterns, original_lower, <<>>)
    IN  IF Raised(page_types) THEN page_types
        ELSE IF Raised(styles) THEN styles
        ELSE IF Raised(domains) THEN domains
        ELSE Ok([page_types |-> page_types.value,
                 styles |-> styles.value,
                 components |-> <<>>,
                 domains |-> domains.value,
                 audiences |-> <<>>,
                 functional |-> functional.value,
                 technical |-> technical.value])

_extract_entities(self, tokens, original_prompt) ==
    LET text == StrJoin(tokens)
        original_lower == PromptLower(original_prompt)
        page_types == ScanCatalog(self.design_patterns, original_lower, <<>>)
        styles == ScanCatalog(self.style_guides, original_lower, <<>>)
        domains == ScanCatalog(self.domain_knowledge, original_lower, <<>>)
        functional == ScanCatalog(functional_patterns, original_lower, <<>>)
        technical == ScanCatalog(technical_patterns, original_lower, <<>>)
    IN  IF Raised(page_types) THEN page_types
        ELSE IF Raised(styles) THEN styles
        ELSE IF Raised(domains) THEN domains
        ELSE Ok([page_types |-> page_types.value,
                 styles |-> styles.value,
                 components |-> <<>>,
                 domains |-> domains.value,
                 audiences |-> <<>>,
                 functional |-> functional.value,
                 technical |-> technical.value])

RECURSIVE LastAudience(_, _)
\* FirstAudience without the return inside the loop: the last match wins
LastAudience(table, prompt_lower) ==
    IF table = <<>> THEN "general"
    ELSE IF AnyKeyword(table[Len(table)].keywords, prompt_lower)
         THEN table[Len(table)].key
    ELSE LastAudience(SubSeq(table, 1, Len(table) - 1), prompt_lower)

RECURSIVE FirstAudience(_, _)
\* the loop of _infer_audience over audience_patterns
FirstAudience(table, prompt_lower) ==
    IF table = <<>> THEN "general"
    ELSE IF AnyKeyword(Head(table).keywords, prompt_lower) THEN Head(table).key
    ELSE FirstAudience(Tail(table), prompt_lower)

_infer_audience(self, domain, prompt) ==
    IF DictHas(self.domain_knowledge, domain)
    THEN IF Lacks(DictGet(self.domain_knowledge, domain), "audience")
         THEN Raise("KeyError")
         ELSE Ok(DictGet(self.domain_knowledge, domain).audience)
    ELSE Ok(FirstAudience(audience_patterns, PromptLower(prompt)))

RECURSIVE StyleTraits(_)
\* the loop of _infer_personality over the styles
StyleTraits(styles) ==
    IF styles = <<>> THEN <<>>
    ELSE (IF DictHas(style_personalities, Head(styles))
          THEN DictGet(style_personalities, Head(styles)).traits
          ELSE <<>>)
         \o StyleTraits(Tail(styles))

_infer_personality(self, styles, domain, seed) ==
    IF DictHas(self.domain_knowledge, domain)
       /\ Lacks(DictGet(self.domain_knowledge, domain), "characteristics")
    THEN Raise("KeyError")
    ELSE LET personality ==
                 StyleTraits(styles)
                 \o (IF DictHas(self.domain_knowledge, domain)
                     THEN DictGet(self.domain_knowledge, domain).characteristics
                     ELSE <<>>)
         IN  Ok(IF personality # <<>>
                THEN ListOfSet(personality, seed)
                ELSE <<"friendly", "approachable">>)

\* FirstOrDefault taking the last element: list[-1]
LastOrDefault(list, default) == IF list # <<>> THEN list[Len(list)] ELSE default

\* `list[0] if list else default`
FirstOrDefault(list, default) == IF list # <<>> THEN list[1] ELSE default

\* OrDefault extending the list with the default: `list + default`
WithDefault(list, default) == list \o default

\* OrDefault without the else branch
NoDefault(list, default) == list

\* `list if list else default`
OrDefault(list, default) == IF list # <<>> THEN list ELSE default

\* _classify_intent with pattern['layouts'][-1] for pattern['layouts'][0]
ClassifyIntentLastLayout(self, entities, prompt, seed) ==
    LET page_type == FirstOrDefault(entities.page_types, "landing")
        pattern == IF DictHas(self.design_patterns, page_type)
                   THEN DictGet(self.design_patterns, page_type)
                   ELSE DictGet(self.design_patterns, "landing")
        styles == OrDefault(entities.styles, <<"modern">>)
        domain == FirstOrDefault(entities.domains, "general")
        audience == _infer_audience(self, domain, prompt)
        personality == _infer_personality(self, styles, domain, seed)
        functional == OrDefault(entities.functional, <<"responsive">>)
        technical == OrDefault(entities.technical, <<"react_nextjs", "tailwind">>)
    IN  IF ~DictHas(self.design_patterns, "landing") THEN Raise("KeyError")
        ELSE IF Raised(audience) THEN audience
        ELSE IF Raised(personality) THEN personality
        ELSE IF Lacks(pattern, "components") \/ Lacks(pattern, "layouts")
             THEN Raise("KeyError")
        ELSE IF pattern.layouts = <<>> THEN Raise("IndexError")
        ELSE Ok([page_type |-> page_type,
                 styles |-> styles,
                 components |-> pattern.components,
                 layout |-> pattern.layouts[Len(pattern.layouts)],
                 domain |-> domain,
                 audience |-> audience.value,
                 personality |-> personality.value,
                 functional |-> functional,
                 technical |-> technical])

_classify_intent(self, entities, prompt, seed) ==
    LET page_type == FirstOrDefault(entities.page_types, "landing")
        pattern == IF DictHas(self.design_patterns, page_type)
                   THEN DictGet(self.design_patterns, page_type)
                   ELSE DictGet(self.design_patterns, "landing")
        styles == OrDefault(entities.styles, <<"modern">>)
        domain == FirstOrDefault(entities.domains, "general")
        audience == _infer_audience(self, domain, prompt)
        personality == _infer_personality(self, styles, domain, seed)
        functional == OrDefault(entities.functional, <<"responsive">>)
        technical == OrDefault(entities.technical, <<"react_nextjs", "tailwind">>)
    IN  IF ~DictHas(self.design_patterns, "landing") THEN Raise("KeyError")
        ELSE IF Raised(audience) THEN audience
        ELSE IF Raised(personality) THEN personality
        ELSE IF Lacks(pattern, "components") \/ Lacks(pattern, "layouts")
             THEN Raise("KeyError")
        ELSE IF pattern.layouts = <<>> THEN Raise("IndexError")
        ELSE Ok([page_type |-> page_type,
                 styles |-> styles,
                 components |-> pattern.components,
                 layout |-> pattern.layouts[1],
                 domain |-> domain,
                 audience |-> audience.value,
                 personality |-> personality.value,
                 functional |-> functional,
                 technical |-> technical])

RECURSIVE StyleComplexity(_, _)
\* the loop of _calculate_complexity over intent['styles']: the sum of
\* style_guides[style]['complexity'] * 0.1
StyleComplexity(self, styles) ==
    IF styles = <<>> THEN 0
    ELSE (IF DictHas(self.style_guides, Head(styles))
          THEN DictGet(self.style_guides, Head(styles)).complexity \div 10
          ELSE 0)
         + StyleComplexity(self, Tail(styles))

\* LengthTerm with >= for the first >
LengthTermAtLeast(prompt_length) ==
    IF prompt_length >= 50 THEN 100
    ELSE IF prompt_length > 100 THEN 200
    ELSE 0

\* the if/elif on prompt_length: what it adds to base_complexity
LengthTerm(prompt_length) ==
    IF prompt_length > 50 THEN 100
    ELSE IF prompt_length > 100 THEN 200
    ELSE 0

\* the page type's complexity, 0.5 for a page type the table lacks
PageComplexity(self, page_type) ==
    IF DictHas(self.design_patterns, page_type)
    THEN DictGet(self.design_patterns, page_type).complexity
    ELSE 500

\* the local base_complexity of _calculate_complexity before the if/elif
\* on prompt_length
ComplexityBeforeLength(self, intent) ==
    LET component_count == Len(intent.components)
        functional_count == Len(intent.functional)
        technical_count == Len(intent.technical)
    IN  PageComplexity(self, intent.page_type)
        + StyleComplexity(self, intent.styles)
        + (component_count - 3) * 50
        + functional_count * 80
        + technical_count * 60

\* the local base_complexity of _calculate_complexity when it returns
BaseComplexity(self, intent, prompt) ==
    LET prompt_length == WordCount(prompt)
    IN  ComplexityBeforeLength(self, intent) + LengthTerm(prompt_length)

\* whether a lookup of _calculate_complexity raises KeyError
ComplexityLookupFails(self, intent) ==
    \/ /\ DictHas(self.design_patterns, intent.page_type)
       /\ Lacks(DictGet(self.design_patterns, intent.page_type), "complexity")
    \/ \E i \in 1..Len(intent.styles) :
           /\ DictHas(self.style_guides, intent.styles[i])
           /\ Lacks(DictGet(self.style_guides, intent.styles[i]), "complexity")

\* _calculate_complexity returning base_complexity without min(..., 1.0)
CalculateComplexityUnclamped(self, intent, prompt) ==
    IF ComplexityLookupFails(self, intent) THEN Raise("KeyError")
    ELSE Ok(BaseComplexity(self, intent, prompt))

_calculate_complexity(self, intent, prompt) ==
    IF ComplexityLookupFails(self, intent) THEN Raise("KeyError")
    ELSE Ok(Min(BaseComplexity(self, intent, prompt), 1000))

\* _calculate_confidence with `elif prompt_length > 25: confidence += 0.2`
\* after `if prompt_length > 10`, the shape of _calculate_complexity's rule
CalculateConfidenceElif(entities, prompt) ==
    LET prompt_length == WordCount(prompt)
        confidence ==
            500
            + (IF entities.page_types # <<>> THEN 300 ELSE 0)
            + (IF entities.styles # <<>> THEN 200 ELSE 0)
            + (IF entities.domains # <<>> THEN 100 ELSE 0)
            + (IF prompt_length > 10 THEN 100
               ELSE IF prompt_length > 25 THEN 200 ELSE 0)
            + (IF AnyKeyword(specific_terms, PromptLower(prompt)) THEN 100 ELSE 0)
    IN  Ok(Min(confidence, 1000))

\* _calculate_confidence with `if specific_terms:` for the any(...) test
CalculateConfidenceAnyTerm(entities, prompt) ==
    LET prompt_length == WordCount(prompt)
        confidence ==
            500
            + (IF entities.page_types # <<>> THEN 300 ELSE 0)
            + (IF entities.styles # <<>> THEN 200 ELSE 0)
            + (IF entities.domains # <<>> THEN 100 ELSE 0)
            + (IF prompt_length > 10 THEN 100 ELSE 0)
            + (IF prompt_length > 25 THEN 100 ELSE 0)
            + (IF specific_terms # <<>> THEN 100 ELSE 0)
    IN  Ok(Min(confidence, 1000))

_calculate_confidence(entities, prompt) ==
    LET prompt_length == WordCount(prompt)
        confidence ==
            500
            + (IF entities.page_types # <<>> THEN 300 ELSE 0)
            + (IF entities.styles # <<>> THEN 200 ELSE 0)
            + (IF entities.domains # <<>> THEN 100 ELSE 0)
            + (IF prompt_length > 10 THEN 100 ELSE 0)
            + (IF prompt_length > 25 THEN 100 ELSE 0)
            + (IF AnyKeyword(specific_terms, PromptLower(prompt)) THEN 100 ELSE 0)
    IN  Ok(Min(confidence, 1000))

\* whether every element of a List[str] field is a str
AllStr(list) == \A i \in 1..Len(list) : list[i] # NotAStr

\* DesignIntentResponse(...): the pydantic model validates its fields
DesignIntentResponse(intent, complexity, confidence) ==
    IF /\ AllStr(intent.styles) /\ AllStr(intent.components)
       /\ AllStr(intent.personality) /\ AllStr(intent.functional)
       /\ AllStr(intent.technical)
    THEN Ok([page_type |-> intent.page_type,
             style_preferences |-> intent.styles,
             components |-> intent.components,
             layout |-> intent.layout,
             complexity |-> complexity,
             business_domain |-> intent.domain,
             target_audience |-> intent.audience,
             brand_personality |-> intent.personality,
             functional_requirements |-> intent.functional,
             technical_requirements |-> intent.technical,
             confidence |-> confidence])
    ELSE Raise("ValidationError")

\* _get_default_analysis with confidence=0.5, the base of
\* _calculate_confidence
DefaultAnalysisBaseConfidence ==
    [page_type |-> "landing",
     style_preferences |-> <<"modern">>,
     components |-> <<"header", "hero", "features", "footer">>,
     layout |-> "single_column",
     complexity |-> 500,
     business_domain |-> "general",
     target_audience |-> "general",
     brand_personality |-> <<"friendly", "approachable">>,
     functional_requirements |-> <<"responsive">>,
     technical_requirements |-> <<"react_nextjs", "tailwind">>,
     confidence |-> 500]

_get_default_analysis ==
    [page_type |-> "landing",
     style_preferences |-> <<"modern">>,
     components |-> <<"header", "hero", "features", "footer">>,
     layout |-> "single_column",
     complexity |-> 500,
     business_domain |-> "general",
     target_audience |-> "general",
     brand_personality |-> <<"friendly", "approachable">>,
     functional_requirements |-> <<"responsive">>,
     technical_requirements |-> <<"react_nextjs", "tailwind">>,
     confidence |-> 300]

\* the exceptions raised in the model; each is a subclass of Exception
ExceptionClasses ==
    {"AttributeError", "KeyError", "IndexError", "ValidationError"}

\* Catches for `except KeyError as e`
CatchesKeyErrorOnly(e) == e = "KeyError"

\* `except Exception as e` of analyze_prompt: whether it catches e
Catches(e) == e \in ExceptionClasses

\* TablesAfter for a step that moves the entry of the classified page type
\* to the front of design_patterns (pop the key and insert it again first)
TablesAfterMoveToFront(self, page_type) ==
    [self EXCEPT !.design_patterns =
        SelectSeq(@, LAMBDA entry : entry.key = page_type)
        \o SelectSeq(@, LAMBDA entry : entry.key # page_type)]

\* TablesAfter for a step that reverses in place the component list it was
\* handed, which is the table's own list
TablesAfterReverse(self, page_type) ==
    [self EXCEPT !.design_patterns =
        [i \in 1..Len(@) |->
            IF @[i].key = page_type
            THEN [@[i] EXCEPT !.components = Reverse(@)]
            ELSE @[i]]]

\* TablesAfter for a step that pops a component off the list it was handed,
\* which is the table's own list
TablesAfterPop(self, page_type) ==
    [self EXCEPT !.design_patterns =
        [i \in 1..Len(@) |->
            IF @[i].key = page_type /\ Len(@[i].components) > 1
            THEN [@[i] EXCEPT !.components = SubSeq(@, 1, Len(@) - 1)]
            ELSE @[i]]]

\* the tables after a call of analyze_prompt: no step assigns to one or
\* changes a list it holds
TablesAfter(self, page_type) == self

\* analyze_prompt run from its first line to its return with no other
\* call on the engine: the DesignIntentResponse it returns, or the
\* exception its except clause does not catch
analyze_prompt(self, prompt, seed) ==
    LET Caught(e) == IF Catches(e) THEN Ok(_get_default_analysis) ELSE Raise(e)
        tokens == _tokenize_prompt(prompt)
        entities == _extract_entities(self, tokens.value, prompt)
        intent == _classify_intent(self, entities.value, prompt, seed)
        complexity == _calculate_complexity(self, intent.value, prompt)
        confidence == _calculate_confidence(entities.value, prompt)
        built == DesignIntentResponse(intent.value, complexity.value,
                                      confidence.value)
    IN  IF Raised(tokens) THEN Caught(tokens.exc)
        ELSE IF Raised(entities) THEN Caught(entities.exc)
        ELSE IF Raised(intent) THEN Caught(intent.exc)
        ELSE IF Raised(complexity) THEN Caught(complexity.exc)
        ELSE IF Raised(confidence) THEN Caught(confidence.exc)
        ELSE IF Raised(built) THEN Caught(built.exc)
        ELSE built

\* the except branch of analyze_prompt_advanced: its own default
AdvancedDefault ==
    [page_type |-> "landing",
     style_preferences |-> <<"modern">>,
     components |-> <<"header", "content", "footer">>,
     layout |-> "single_column",
     complexity |-> 500,
     business_domain |-> "general",
     target_audience |-> "general",
     brand_personality |-> <<"friendly">>,
     functional_requirements |-> <<"responsive">>,
     technical_requirements |-> <<"react_nextjs">>,
     confidence |-> 300]

(***************************************************************************)
(* WebSocketManager: the registry and the methods that change it without   *)
(* awaiting.  `self` is the manager: active_connections is held as the     *)
(* list of its keys in insertion order (the order broadcast iterates in;   *)
(* a key's value is that client's socket), connection_metadata as the      *)
(* function from client to the project_id of its metadata, and             *)
(* project_connections as the function from project to its set of clients; *)
(* neither of the two is ever iterated.                                    *)
(***************************************************************************)
Clients == {"c1", "c2"}

ProjectIds == {"p1", "p2"}

\* project_id = None
NoneId == "<None>"

\* d[key] = value
DictSet(d, key, value) ==
    [k \in DOMAIN d \cup {key} |-> IF k = key THEN value ELSE d[k]]

\* del d[key]
DictDel(d, key) == [k \in DOMAIN d \ {key} |-> d[k]]

\* del of a key of the list of keys
KeysDel(keys, key) == SelectSeq(keys, LAMBDA k : k # key)

\* {}
EmptyDict == [k \in {} |-> NoneId]

\* WebSocketManager.__init__
NewManager ==
    [active_connections |-> <<>>,
     connection_metadata |-> EmptyDict,
     project_connections |-> EmptyDict]

\* project_connections after `if project_id not in ...: ... = set()` and
\* `.add(client_id)`
GroupAdd(project_connections, project_id, client_id) ==
    DictSet(project_connections, project_id,
            (IF project_id \in DOMAIN project_connections
             THEN project_connections[project_id] ELSE {}) \cup {client_id})

\* GroupDiscard that keeps a set it has emptied
GroupDiscardKeepEmpty(project_connections, project_id, client_id) ==
    DictSet(project_connections, project_id,
            project_connections[project_id] \ {client_id})

\* project_connections after `.discard(client_id)` and the del of a set
\* that it emptied, for a project_id of project_connections
GroupDiscard(project_connections, project_id, client_id) ==
    LET group == project_connections[project_id] \ {client_id}
    IN  IF group = {}
        THEN DictDel(project_connections, project_id)
        ELSE DictSet(project_connections, project_id, group)

\* connect, from the return of websocket.accept() to the await of
\* send_personal_message
connect(self, client_id, project_id) ==
    [active_connections |->
         IF client_id \in Range(self.active_connections)
         THEN self.active_connections
         ELSE Append(self.active_connections, client_id),
     connection_metadata |->
         DictSet(self.connection_metadata, client_id, project_id),
     project_connections |->
         IF project_id # NoneId
         THEN GroupAdd(self.project_connections, project_id, client_id)
         ELSE self.project_connections]

disconnect(self, client_id) ==
    IF client_id \in Range(self.active_connections)
    THEN LET project_id ==
                 IF client_id \in DOMAIN self.connection_metadata
                 THEN self.connection_metadata[client_id] ELSE NoneId
         IN  [active_connections |-> KeysDel(self.active_connections, client_id),
              connection_metadata |-> DictDel(self.connection_metadata, client_id),
              project_connections |->
                  IF project_id # NoneId
                     /\ project_id \in DOMAIN self.project_connections
                  THEN GroupDiscard(self.project_connections, project_id,
                                    client_id)
                  ELSE self.project_connections]
    ELSE self

\* the message types handle_client_message knows
MessageTypes == {"pong", "subscribe_to_project", "unsubscribe_from_project"}

\* handle_client_message; project_id is message_data.get("project_id").  A
\* pong only sets last_activity, which is not held
handle_client_message(self, client_id, message_type, project_id) ==
    IF message_type = "subscribe_to_project"
    THEN [self EXCEPT
              !.project_connections =
                  IF project_id # NoneId
                  THEN GroupAdd(@, project_id, client_id) ELSE @,
              !.connection_metadata =
                  IF project_id # NoneId /\ client_id \in DOMAIN @
                  THEN DictSet(@, client_id, project_id) ELSE @]
    ELSE IF message_type = "unsubscribe_from_project"
    THEN [self EXCEPT
              !.project_connections =
                  IF project_id # NoneId /\ project_id \in DOMAIN @
                  THEN GroupDiscard(@, project_id, client_id) ELSE @]
    ELSE self

(***************************************************************************)
(* broadcast and broadcast_to_project: the loop over the registry, which   *)
(* is suspended at each send_text.  A task's frame holds the iterator:     *)
(* the size of the collection when the loop began, the clients the         *)
(* iterator gave so far (the last one is the one being sent to), whether   *)
(* the collection's keys changed since, and, for a project's set, whether  *)
(* the set is still the one in project_connections (a set is deleted only  *)
(* when empty, and then stays empty).  `alone` tells that no other         *)
(* coroutine changed the registry since the loop began.                    *)
(***************************************************************************)
\* the tasks that ping or chat, and the calls of generate_ui_advanced
Broadcasters == {"b1"}

GenerationIds == {"r1", "r2"}

Tasks == Broadcasters \cup GenerationIds

\* a message: its type and, for generation_progress, data.progress in
\* hundredths
NoMessage == [type |-> "", progress |-> 0]

NoSend ==
    [pc |-> "idle", kind |-> "all", project_id |-> NoneId, message |-> NoMessage,
     size |-> 0, dirty |-> FALSE, attached |-> TRUE, alone |-> TRUE,
     visited |-> <<>>, disconnected_clients |-> <<>>]

\* the collection the loop of the frame iterates, as it is now
Members(self, send) ==
    IF send.kind = "all" THEN Range(self.active_connections)
    ELSE IF send.attached /\ send.project_id \in DOMAIN self.project_connections
         THEN self.project_connections[send.project_id]
    ELSE {}

\* what the iterator's next() can do.  It raises RuntimeError when the
\* size is not the size the loop began with.  With the keys unchanged a
\* dict gives its keys in insertion order and a set its elements in the
\* order of their hashes, any order; with keys changed and the size the
\* same, what it gives depends on the layout of the table: it may stop,
\* give any key, or (a dict, which counts what it gave) raise.
IterNext(self, send) ==
    LET members == Members(self, send)
        seen == Range(send.visited)
    IN  IF Cardinality(members) # send.size THEN {"RuntimeError"}
        ELSE IF ~send.dirty
        THEN IF send.kind = "all"
             THEN IF Len(send.visited) < Len(self.active_connections)
                  THEN {self.active_connections[Len(send.visited) + 1]}
                  ELSE {"StopIteration"}
             ELSE IF members \ seen = {} THEN {"StopIteration"}
                  ELSE members \ seen
        ELSE IF send.kind = "all"
        THEN {"RuntimeError", "StopIteration"}
             \cup (IF Len(send.visited) < send.size THEN members ELSE {})
        ELSE {"StopIteration"} \cup (members \ seen)

RECURSIVE Iterate(_, _)
\* the loop from its header to the next send_text ("sending"), to its end
\* ("cleanup") or to the RuntimeError ("raised", the frame is gone): the
\* frames it can reach.
\* broadcast_to_project passes over a member that is not in
\* active_connections
Iterate(self, send) ==
    UNION {IF next = "RuntimeError" THEN {[NoSend EXCEPT !.pc = "raised"]}
           ELSE IF next = "StopIteration" THEN {[send EXCEPT !.pc = "cleanup"]}
           ELSE LET given == [send EXCEPT !.visited = Append(@, next)]
                IN  IF send.kind = "project"
                       /\ next \notin Range(self.active_connections)
                    THEN Iterate(self, given)
                    ELSE {[given EXCEPT !.pc = "sending"]}
           : next \in IterNext(self, send)}

RECURSIVE DisconnectEach(_, _)
\* for client_id in disconnected_clients: self.disconnect(client_id)
DisconnectEach(self, disconnected_clients) ==
    IF disconnected_clients = <<>> THEN self
    ELSE DisconnectEach(disconnect(self, Head(disconnected_clients)),
                        Tail(disconnected_clients))

\* the frame of a suspended loop after the registry went from `before` to
\* `after`
Touched(send, before, after) ==
    IF send.pc # "sending" THEN send
    ELSE LET kept == [send EXCEPT !.attached =
                          @ /\ (send.kind = "project" =>
                                  send.project_id \in DOMAIN after.project_connections)]
         IN  [kept EXCEPT !.dirty =
                           @ \/ Members(before, send) # Members(after, kept),
                       !.alone = @ /\ before = after]

(***************************************************************************)
(* State: the shared engine of services.py and one call of                 *)
(* analyze_prompt_advanced with the locals of analyze_prompt.              *)
(***************************************************************************)
VARIABLES
    engine,           \* nlp_engine: the four knowledge tables
    hashseed,         \* the process's str hash seed
    pc,               \* where the call stands
    prompt,           \* request.prompt
    tokens,           \* analyze_prompt's local tokens
    entities,         \* analyze_prompt's local entities
    intent,           \* analyze_prompt's local intent
    base_complexity,  \* _calculate_complexity's local when it returned
    complexity,       \* analyze_prompt's local complexity
    confidence,       \* analyze_prompt's local confidence
    exc,              \* the exception raised in the try block, "" for none
    result,           \* what analyze_prompt returned
    response,         \* what analyze_prompt_advanced returned
    pinned,           \* an earlier call that a caller kept: its prompt, its
                      \* entities and its response, and whether a call was
                      \* made since
    calls,            \* the calls of analyze_prompt running side by side on
                      \* the engine: each caller's frame
    manager,          \* websocket_manager: the registry of connections
    broken,           \* the clients whose socket raises on send_text
    personal,         \* the clients to whom a send_personal_message is
                      \* suspended at its send_text
    sends,            \* each task's broadcast or broadcast_to_project
    sent,             \* each task's calls of send_text that came back, in
                      \* order: to whom, what, and whether it raised
    current_project_id,  \* crewai_orchestrator.current_project_id
    generations       \* the calls of generate_ui_advanced: each one's frame

locals == <<prompt, tokens, entities, intent, base_complexity, complexity,
            confidence, exc, result, response>>

realtime == <<manager, broken, personal, sends, sent, current_project_id,
              generations>>

vars == <<engine, hashseed, pc, locals, pinned, calls, realtime>>

NoPrompt == [kind |-> "unset", text |-> "", pad |-> 0]

NoEntities ==
    [page_types |-> <<>>, styles |-> <<>>, components |-> <<>>, domains |-> <<>>,
     audiences |-> <<>>, functional |-> <<>>, technical |-> <<>>]

NoIntent ==
    [page_type |-> "", styles |-> <<>>, components |-> <<>>, layout |-> "",
     domain |-> "", audience |-> "", personality |-> <<>>, functional |-> <<>>,
     technical |-> <<>>]

NoResult ==
    [page_type |-> "", style_preferences |-> <<>>, components |-> <<>>,
     layout |-> "", complexity |-> 0, business_domain |-> "",
     target_audience |-> "", brand_personality |-> <<>>,
     functional_requirements |-> <<>>, technical_requirements |-> <<>>,
     confidence |-> 0]

\* the frame of a caller that is in no call
NoCall ==
    [pc |-> "idle", prompt |-> NoPrompt, tokens |-> <<>>, entities |-> NoEntities,
     intent |-> NoIntent, complexity |-> 0, confidence |-> 0, exc |-> "",
     result |-> NoResult]

\* a call of generate_ui_advanced that was not made
NoGeneration ==
    [pc |-> "idle", prompt |-> NoPrompt, project_id |-> NoneId,
     style_preferences |-> <<>>, complexity |-> 0, exc |-> "",
     generation_result |-> [request_id |-> NoneId, novelty |-> 0, status |-> ""],
     response |-> [request_id |-> NoneId, novelty |-> 0, status |-> ""]]

NotPinned ==
    [called |-> FALSE, prompt |-> NoPrompt, entities |-> NoEntities,
     response |-> NoResult, between |-> FALSE]

Cleared ==
    /\ prompt = NoPrompt
    /\ tokens = <<>>
    /\ entities = NoEntities
    /\ intent = NoIntent
    /\ base_complexity = 0
    /\ complexity = 0
    /\ confidence = 0
    /\ exc = ""
    /\ result = NoResult
    /\ response = NoResult

\* services.py builds the engine once, at import
InitAt(engines, registry) ==
    /\ engine \in engines
    /\ hashseed \in HashSeeds
    /\ pc = "idle"
    /\ Cleared
    /\ pinned = NotPinned
    /\ calls = [c \in Callers |-> NoCall]
    /\ manager = registry
    /\ broken = {}
    /\ personal = {}
    /\ sends = [t \in Tasks |-> NoSend]
    /\ sent = [t \in Tasks |-> <<>>]
    /\ current_project_id = NoneId
    /\ generations = [r \in GenerationIds |-> NoGeneration]

\* websocket_manager.py builds the manager once, at import, with nobody
\* registered
InitWith(engines) == InitAt(engines, NewManager)

Init == InitWith({NewEngine})

\* a step of the try block raised: control goes to the except clause
RaiseTo(e) ==
    /\ exc' = e
    /\ pc' = "except"

\* analyze_prompt_advanced(request) awaits nlp_engine.analyze_prompt
Request(prompts) ==
    /\ pc = "idle"
    /\ \E p \in prompts : prompt' = p
    /\ pc' = "tokenize"
    /\ UNCHANGED <<engine, hashseed, tokens, entities, intent, base_complexity,
                   complexity, confidence, exc, result, response, pinned, calls, realtime>>

Tokenize ==
    /\ pc = "tokenize"
    /\ LET r == _tokenize_prompt(prompt)
       IN  IF Raised(r)
           THEN RaiseTo(r.exc) /\ UNCHANGED tokens
           ELSE tokens' = r.value /\ pc' = "extract" /\ UNCHANGED exc
    /\ UNCHANGED <<engine, hashseed, prompt, entities, intent, base_complexity,
                   complexity, confidence, result, response, pinned, calls, realtime>>

ExtractEntities ==
    /\ pc = "extract"
    /\ LET r == _extract_entities(engine, tokens, prompt)
       IN  IF Raised(r)
           THEN RaiseTo(r.exc) /\ UNCHANGED entities
           ELSE entities' = r.value /\ pc' = "classify" /\ UNCHANGED exc
    /\ UNCHANGED <<engine, hashseed, prompt, tokens, intent, base_complexity,
                   complexity, confidence, result, response, pinned, calls, realtime>>

ClassifyIntent ==
    /\ pc = "classify"
    /\ LET r == _classify_intent(engine, entities, prompt, hashseed)
       IN  IF Raised(r)
           THEN RaiseTo(r.exc) /\ UNCHANGED <<intent, engine>>
           ELSE /\ intent' = r.value
                /\ engine' = TablesAfter(engine, r.value.page_type)
                /\ pc' = "complexity"
                /\ UNCHANGED exc
    /\ UNCHANGED <<hashseed, prompt, tokens, entities, base_complexity,
                   complexity, confidence, result, response, pinned, calls, realtime>>

CalculateComplexity ==
    /\ pc = "complexity"
    /\ LET r == _calculate_complexity(engine, intent, prompt)
       IN  IF Raised(r)
           THEN RaiseTo(r.exc) /\ UNCHANGED <<base_complexity, complexity>>
           ELSE /\ base_complexity' = BaseComplexity(engine, intent, prompt)
                /\ complexity' = r.value
                /\ pc' = "confidence"
                /\ UNCHANGED exc
    /\ UNCHANGED <<engine, hashseed, prompt, tokens, entities, intent,
                   confidence, result, response, pinned, calls, realtime>>

CalculateConfidence ==
    /\ pc = "confidence"
    /\ LET r == _calculate_confidence(entities, prompt)
       IN  IF Raised(r)
           THEN RaiseTo(r.exc) /\ UNCHANGED confidence
           ELSE confidence' = r.value /\ pc' = "build" /\ UNCHANGED exc
    /\ UNCHANGED <<engine, hashseed, prompt, tokens, entities, intent,
                   base_complexity, complexity, result, response, pinned, calls, realtime>>

\* return DesignIntentResponse(...)
BuildResponse ==
    /\ pc = "build"
    /\ LET r == DesignIntentResponse(intent, complexity, confidence)
       IN  IF Raised(r)
           THEN RaiseTo(r.exc) /\ UNCHANGED result
           ELSE result' = r.value /\ pc' = "returned" /\ UNCHANGED exc
    /\ UNCHANGED <<engine, hashseed, prompt, tokens, entities, intent,
                   base_complexity, complexity, confidence, response, pinned, calls, realtime>>

\* except Exception as e: return self._get_default_analysis(); an
\* exception the clause does not catch leaves analyze_prompt
ExceptClause ==
    /\ pc = "except"
    /\ IF Catches(exc)
       THEN result' = _get_default_analysis /\ pc' = "returned"
       ELSE pc' = "propagated" /\ UNCHANGED result
    /\ UNCHANGED <<engine, hashseed, prompt, tokens, entities, intent,
                   base_complexity, complexity, confidence, exc, response, pinned, calls, realtime>>

\* analyze_prompt_advanced returns design_intent, or its own default when
\* analyze_prompt raised
Respond ==
    /\ pc \in {"returned", "propagated"}
    /\ response' = IF pc = "returned" THEN result ELSE AdvancedDefault
    /\ pc' = "responded"
    /\ UNCHANGED <<engine, hashseed, prompt, tokens, entities, intent,
                   base_complexity, complexity, confidence, exc, result, pinned, calls, realtime>>

\* the frames of the call are gone
Forget ==
    /\ pc' = "idle"
    /\ prompt' = NoPrompt
    /\ tokens' = <<>>
    /\ entities' = NoEntities
    /\ intent' = NoIntent
    /\ base_complexity' = 0
    /\ complexity' = 0
    /\ confidence' = 0
    /\ exc' = ""
    /\ result' = NoResult
    /\ response' = NoResult

\* the response is sent
Finish ==
    /\ pc = "responded"
    /\ Forget
    /\ pinned' = IF pinned.called THEN [pinned EXCEPT !.between = TRUE] ELSE pinned
    /\ UNCHANGED <<engine, hashseed, calls, realtime>>

\* the response is sent to a caller that keeps it
FinishPinned ==
    /\ pc = "responded"
    /\ ~pinned.called
    /\ pinned' = [called |-> TRUE, prompt |-> prompt, entities |-> entities,
                  response |-> response, between |-> FALSE]
    /\ Forget
    /\ UNCHANGED <<engine, hashseed, calls, realtime>>

Steps ==
    \/ Tokenize
    \/ ExtractEntities
    \/ ClassifyIntent
    \/ CalculateComplexity
    \/ CalculateConfidence
    \/ BuildResponse
    \/ ExceptClause
    \/ Respond
    \/ Finish

Next == Request(Prompts) \/ Steps

Spec == Init /\ [][Next]_vars

(***************************************************************************)
(* Repeated calls: the prompts of at most one word, no padding, and None;  *)
(* a caller keeps one response to compare later ones with.                 *)
(***************************************************************************)
DetPrompts ==
    {p \in Prompts : p.pad = 0 /\ Len(StrSplit(p.text)) <= 1}

NextDet == Request(DetPrompts) \/ Steps \/ FinishPinned

SpecDet == Init /\ [][NextDet]_vars

(***************************************************************************)
(* Pairs of calls: the unpadded prompts made of PairWords.                 *)
(***************************************************************************)
PairWords == {"contact", "api", "mobile"}

PairPrompts ==
    {p \in StrPrompts : p.pad = 0 /\ Range(StrSplit(p.text)) \subseteq PairWords}
    \cup {NonePrompt}

NextPair == Request(PairPrompts) \/ Steps \/ FinishPinned

SpecPair == Init /\ [][NextPair]_vars

(***************************************************************************)
(* Malformed tables: an engine whose table was replaced by one that makes  *)
(* a step of analyze_prompt raise.                                         *)
(***************************************************************************)
\* entry without one of its fields
Without(entry, field) == [f \in DOMAIN entry \ {field} |-> entry[f]]

\* table with the entry of its key replaced
ReplaceEntry(table, entry) ==
    [i \in 1..Len(table) |-> IF table[i].key = entry.key THEN entry ELSE table[i]]

\* 'dashboard' has no keywords: _extract_entities raises KeyError
NoKeywordsEngine ==
    [NewEngine EXCEPT !.design_patterns =
        ReplaceEntry(@, Without(DictGet(@, "dashboard"), "keywords"))]

\* 'landing' has no layout: _classify_intent raises IndexError
NoLayoutEngine ==
    [NewEngine EXCEPT !.design_patterns =
        ReplaceEntry(@, [DictGet(@, "landing") EXCEPT !.layouts = <<>>])]

\* 'contact' has no complexity: _calculate_complexity raises KeyError
NoComplexityEngine ==
    [NewEngine EXCEPT !.design_patterns =
        ReplaceEntry(@, Without(DictGet(@, "contact"), "complexity"))]

\* a component of 'authentication' is None: DesignIntentResponse raises
\* ValidationError
NoneComponentEngine ==
    [NewEngine EXCEPT !.design_patterns =
        ReplaceEntry(@, [DictGet(@, "authentication") EXCEPT
                             !.components = Append(@, NotAStr)])]

Engines ==
    {NewEngine, NoKeywordsEngine, NoLayoutEngine, NoComplexityEngine,
     NoneComponentEngine}

FaultPrompts == {p \in Prompts : p.pad = 0}

InitFault == InitWith(Engines)

NextFault == Request(FaultPrompts) \/ Steps

SpecFault == InitFault /\ [][NextFault]_vars

(***************************************************************************)
(* Texts over a choice of words, for the specifications below.             *)
(***************************************************************************)
RECURSIVE WordTexts(_, _)
\* the texts of exactly n of the words, one space between two
WordTexts(words, n) ==
    IF n = 0 THEN {""}
    ELSE IF n = 1 THEN Range(words)
    ELSE {t \o " " \o w : t \in WordTexts(words, n - 1), w \in Range(words)}

\* the texts of at most n of the words
TextsUpTo(words, n) == UNION {WordTexts(words, k) : k \in 0..n}

(***************************************************************************)
(* Confidence: prompts of 0 to 26 words with and without a page type, a    *)
(* style, a domain and an intent verb.                                     *)
(***************************************************************************)
ConfWords == << "hi", "dashboard", "dark", "bank", "Build", "make" >>

\* with at most two words of text the prompt has 0, 1, 2, 9, 10, 11, 24,
\* 25 or 26 words
ConfPads == {0, 9, 24}

ConfPrompts ==
    {StrPrompt(t, n) : t \in TextsUpTo(ConfWords, MaxWords), n \in ConfPads}
    \cup {NonePrompt}

NextConf == Request(ConfPrompts) \/ Steps

SpecConf == Init /\ [][NextConf]_vars

(***************************************************************************)
(* Tokens and matching: prompts whose tokens differ from their words: a    *)
(* two-word keyword with a word of two letters, a keyword of two letters,  *)
(* a keyword with a dot, and a hyphen where a keyword has a space.         *)
(***************************************************************************)
TokenWords == << "Sign", "in", "ai", "next.js", "machine-learning" >>

TokenPrompts ==
    {StrPrompt(t, 0) : t \in TextsUpTo(TokenWords, MaxWords)} \cup {NonePrompt}

NextTokens == Request(TokenPrompts) \/ Steps

SpecTokens == Init /\ [][NextTokens]_vars

(***************************************************************************)
(* Intent synthesis: unpadded prompts with styles, a key with two matching *)
(* keywords, domains, audience keywords and requirements.                  *)
(***************************************************************************)
IntentWords ==
    << "hi", "Minimalist", "dark", "bank", "fun", "user", "code", "mobile",
       "api", "shop" >>

IntentPrompts ==
    {StrPrompt(t, 0) : t \in TextsUpTo(IntentWords, MaxWords)} \cup {NonePrompt}

NextIntent == Request(IntentPrompts) \/ Steps

SpecIntent == Init /\ [][NextIntent]_vars

(***************************************************************************)
(* Calls side by side: each caller of Callers runs analyze_prompt on the   *)
(* engine with a frame of its own, and the steps of the callers            *)
(* interleave in every order.                                              *)
(***************************************************************************)
ConcPrompts ==
    {StrPrompt("shop", 0), StrPrompt("shop dashboard", 0),
     StrPrompt("dark bank", 0), NonePrompt}

\* the caller's frame becomes `frame`; no other frame changes
SetCall(c, frame) ==
    /\ calls' = [calls EXCEPT ![c] = frame]
    /\ UNCHANGED <<hashseed, pc, locals, pinned, realtime>>

\* the caller's frame after a step that raised e
CallRaised(c, e) == [calls[c] EXCEPT !.exc = e, !.pc = "except"]

CallRequest(c) ==
    /\ calls[c].pc = "idle"
    /\ \E p \in ConcPrompts :
           SetCall(c, [calls[c] EXCEPT !.prompt = p, !.pc = "tokenize"])
    /\ UNCHANGED engine

CallTokenize(c) ==
    /\ calls[c].pc = "tokenize"
    /\ LET r == _tokenize_prompt(calls[c].prompt)
       IN  SetCall(c, IF Raised(r) THEN CallRaised(c, r.exc)
                      ELSE [calls[c] EXCEPT !.tokens = r.value, !.pc = "extract"])
    /\ UNCHANGED engine

CallExtractEntities(c) ==
    /\ calls[c].pc = "extract"
    /\ LET r == _extract_entities(engine, calls[c].tokens, calls[c].prompt)
       IN  SetCall(c, IF Raised(r) THEN CallRaised(c, r.exc)
                      ELSE [calls[c] EXCEPT !.entities = r.value, !.pc = "classify"])
    /\ UNCHANGED engine

CallClassifyIntent(c) ==
    /\ calls[c].pc = "classify"
    /\ LET r == _classify_intent(engine, calls[c].entities, calls[c].prompt,
                                 hashseed)
       IN  IF Raised(r)
           THEN SetCall(c, CallRaised(c, r.exc)) /\ UNCHANGED engine
           ELSE /\ SetCall(c, [calls[c] EXCEPT !.intent = r.value,
                                               !.pc = "complexity"])
                /\ engine' = TablesAfter(engine, r.value.page_type)

CallCalculateComplexity(c) ==
    /\ calls[c].pc = "complexity"
    /\ LET r == _calculate_complexity(engine, calls[c].intent, calls[c].prompt)
       IN  SetCall(c, IF Raised(r) THEN CallRaised(c, r.exc)
                      ELSE [calls[c] EXCEPT !.complexity = r.value,
                                            !.pc = "confidence"])
    /\ UNCHANGED engine

CallCalculateConfidence(c) ==
    /\ calls[c].pc = "confidence"
    /\ LET r == _calculate_confidence(calls[c].entities, calls[c].prompt)
       IN  SetCall(c, IF Raised(r) THEN CallRaised(c, r.exc)
                      ELSE [calls[c] EXCEPT !.confidence = r.value, !.pc = "build"])
    /\ UNCHANGED engine

CallBuildResponse(c) ==
    /\ calls[c].pc = "build"
    /\ LET r == DesignIntentResponse(calls[c].intent, calls[c].complexity,
                                     calls[c].confidence)
       IN  SetCall(c, IF Raised(r) THEN CallRaised(c, r.exc)
                      ELSE [calls[c] EXCEPT !.result = r.value, !.pc = "returned"])
    /\ UNCHANGED engine

CallExceptClause(c) ==
    /\ calls[c].pc = "except"
    /\ SetCall(c, IF Catches(calls[c].exc)
                  THEN [calls[c] EXCEPT !.result = _get_default_analysis,
                                        !.pc = "returned"]
                  ELSE [calls[c] EXCEPT !.pc = "propagated"])
    /\ UNCHANGED engine

\* the caller has its result (or the exception); the frame is gone
CallReturn(c) ==
    /\ calls[c].pc \in {"returned", "propagated"}
    /\ SetCall(c, NoCall)
    /\ UNCHANGED engine

NextConc ==
    \E c \in Callers :
        \/ CallRequest(c)
        \/ CallTokenize(c)
        \/ CallExtractEntities(c)
        \/ CallClassifyIntent(c)
        \/ CallCalculateComplexity(c)
        \/ CallCalculateConfidence(c)
        \/ CallBuildResponse(c)
        \/ CallExceptClause(c)
        \/ CallReturn(c)

SpecConc == Init /\ [][NextConc]_vars

(***************************************************************************)
(* The coroutines on the event loop.  Code between two awaits runs without *)
(* interruption: a call of generate_ui_advanced whose send has returned    *)
(* goes on to its next await before any other coroutine takes a step.      *)
(***************************************************************************)
\* the stages of generate_ui_advanced that await a send
SendStages ==
    {"progress_0", "progress_25", "progress_90", "complete",
     "error_1", "error_2", "error_3"}

\* the call's send has returned and the call has not gone on yet
Running(r) == generations[r].pc \in SendStages /\ sends[r].pc = "done"

\* the event loop can give task t (or the environment, "") a step
Yields(t) == \A r \in GenerationIds \ {t} : ~Running(r)

\* the registry becomes `after`: the suspended loops' iterators see it
Change(after) ==
    /\ manager' = after
    /\ sends' = [t \in Tasks |-> Touched(sends[t], manager, after)]

\* AfterSendText without the append in the except clause
AfterSendTextForgets(send, failed) == send

\* the try statement around send_text in the loops, past the await: the
\* client is noted when send_text raised
AfterSendText(send, failed) ==
    IF failed
    THEN [send EXCEPT !.disconnected_clients =
              Append(@, send.visited[Len(send.visited)])]
    ELSE send

\* task t's loop runs on from its header: to the next send_text, to the
\* RuntimeError, or to its end, the disconnects after it and the return
Settle(t, send) ==
    \E next \in Iterate(manager, send) :
        IF next.pc = "cleanup"
        THEN LET after == DisconnectEach(manager, next.disconnected_clients)
             IN  /\ manager' = after
                 /\ sends' = [u \in Tasks |->
                                 IF u = t THEN [NoSend EXCEPT !.pc = "done"]
                                 ELSE Touched(sends[u], manager, after)]
        ELSE /\ sends' = [sends EXCEPT ![t] = next]
             /\ UNCHANGED manager

\* the send_* methods: `if project_id: await self.broadcast_to_project(...)
\* else: await self.broadcast(...)`, up to the first send_text; both
\* return at once when there is nobody to send to
StartSend(t, message, project_id) ==
    LET kind == IF project_id # NoneId THEN "project" ELSE "all"
        send == [NoSend EXCEPT !.kind = kind, !.project_id = project_id,
                               !.message = message]
        members == Members(manager, send)
    IN  IF members = {}
        THEN /\ sends' = [sends EXCEPT ![t] = [NoSend EXCEPT !.pc = "done"]]
             /\ UNCHANGED manager
        ELSE Settle(t, [send EXCEPT !.size = Cardinality(members)])

\* the send_text a loop awaits returns or raises, and the loop goes on
ResumeSend(t) ==
    /\ sends[t].pc = "sending"
    /\ Yields(t)
    /\ LET send == sends[t]
           client_id == send.visited[Len(send.visited)]
           failed == client_id \in broken
       IN  /\ sent' = [sent EXCEPT ![t] =
                           Append(@, [client_id |-> client_id,
                                      message |-> send.message,
                                      raised |-> failed])]
           /\ Settle(t, AfterSendText(send, failed))
    /\ UNCHANGED <<engine, hashseed, pc, locals, pinned, calls, broken, personal,
                   current_project_id, generations>>

\* connect(websocket, client_id, project_id): accept returned, the client
\* is registered, and the welcome is awaited in send_personal_message
Connect(c, project_id) ==
    /\ c \notin broken
    /\ Yields("")
    /\ Change(connect(manager, c, project_id))
    /\ personal' = personal \cup {c}
    /\ UNCHANGED <<engine, hashseed, pc, locals, pinned, calls, broken, sent,
                   current_project_id, generations>>

\* send_personal_message past its send_text: `except Exception:
\* self.disconnect(client_id)`
PersonalReturn(c) ==
    /\ c \in personal
    /\ Yields("")
    /\ personal' = personal \ {c}
    /\ IF c \in broken
       THEN Change(disconnect(manager, c))
       ELSE UNCHANGED <<manager, sends>>
    /\ UNCHANGED <<engine, hashseed, pc, locals, pinned, calls, broken, sent,
                   current_project_id, generations>>

\* disconnect(client_id), called for a registered client
Disconnect(c) ==
    /\ c \in Range(manager.active_connections)
    /\ Yields("")
    /\ Change(disconnect(manager, c))
    /\ UNCHANGED <<engine, hashseed, pc, locals, pinned, calls, broken, personal,
                   sent, current_project_id, generations>>

\* handle_client_message for a message a registered client sent
ClientMessage(c, projects) ==
    /\ c \in Range(manager.active_connections)
    /\ Yields("")
    /\ \E message_type \in MessageTypes, project_id \in projects \cup {NoneId} :
           Change(handle_client_message(manager, c, message_type, project_id))
    /\ UNCHANGED <<engine, hashseed, pc, locals, pinned, calls, broken, personal,
                   sent, current_project_id, generations>>

\* a registered client's socket breaks: send_text raises from now on
Break(c) ==
    /\ c \in Range(manager.active_connections)
    /\ c \notin broken
    /\ broken' = broken \cup {c}
    /\ UNCHANGED <<engine, hashseed, pc, locals, pinned, calls, manager, personal,
                   sends, sent, current_project_id, generations>>

\* ping_all_clients: broadcast of a ping
Ping(t) ==
    /\ sends[t].pc # "sending"
    /\ Yields(t)
    /\ sent' = [sent EXCEPT ![t] = <<>>]
    /\ StartSend(t, [NoMessage EXCEPT !.type = "ping"], NoneId)
    /\ UNCHANGED <<engine, hashseed, pc, locals, pinned, calls, broken, personal,
                   current_project_id, generations>>

\* send_chat_message(message, project_id, sender) for a project
Chat(t, projects) ==
    /\ sends[t].pc # "sending"
    /\ Yields(t)
    /\ sent' = [sent EXCEPT ![t] = <<>>]
    /\ \E project_id \in projects :
           StartSend(t, [NoMessage EXCEPT !.type = "chat_message"], project_id)
    /\ UNCHANGED <<engine, hashseed, pc, locals, pinned, calls, broken, personal,
                   current_project_id, generations>>

\* the registry alone: clients connect, subscribe, break and leave
NextReg ==
    \/ \E c \in Clients, project_id \in ProjectIds \cup {NoneId} :
           Connect(c, project_id)
    \/ \E c \in Clients : PersonalReturn(c)
    \/ \E c \in Clients : Disconnect(c)
    \/ \E c \in Clients : ClientMessage(c, ProjectIds)
    \/ \E c \in Clients : Break(c)

SpecReg == Init /\ [][NextReg]_vars

\* the one project of the clients while broadcasts run
WsProjects == {"p1"}

\* the registry while a task pings all clients or chats to the project
NextWs ==
    \/ \E c \in Clients, project_id \in WsProjects \cup {NoneId} :
           Connect(c, project_id)
    \/ \E c \in Clients : PersonalReturn(c)
    \/ \E c \in Clients : Disconnect(c)
    \/ \E c \in Clients : ClientMessage(c, WsProjects)
    \/ \E c \in Clients : Break(c)
    \/ \E t \in Broadcasters : Ping(t)
    \/ \E t \in Broadcasters : Chat(t, WsProjects)
    \/ \E t \in Broadcasters : ResumeSend(t)

SpecWs == Init /\ [][NextWs]_vars

(***************************************************************************)
(* generate_ui_advanced on the shared orchestrator: each call's stage is   *)
(* the await it is suspended at.                                           *)
(***************************************************************************)
\* the message of send_generation_progress
send_generation_progress(progress) ==
    [type |-> "generation_progress", progress |-> progress]

\* send_generation_complete with the type of send_generation_progress
SendCompleteAsProgress == [type |-> "generation_progress", progress |-> 100]

\* the message of send_generation_complete
send_generation_complete == [type |-> "generation_complete", progress |-> 0]

\* the message of send_error and of _broadcast_error
send_error == [type |-> "error", progress |-> 0]

\* AfterKickoff with the exception swallowed
AfterKickoffSwallows(outcome) == "progress_90"

\* _execute_crew_with_updates past `await crew.kickoff_async()`: the next
\* await is the send of progress 0.9, or, in the except clause, the send of
\* _broadcast_error
AfterKickoff(outcome) == IF outcome = "raise" THEN "error_1" ELSE "progress_90"

\* metrics["novelty"] of _process_crew_result, in thousandths
Novelty(design_intent) ==
    LET novelty_score ==
            Min(950, 750 + Len(design_intent.style_preferences) * 50)
        complexity_bonus == IF design_intent.complexity > 700 THEN 100 ELSE 0
    IN  novelty_score + complexity_bonus

\* the call's frame moves to the stage
Stage(r, stage) == generations' = [generations EXCEPT ![r].pc = stage]

\* generate_ui_advanced(request): analyze_prompt has no await inside and
\* returns; project_id is request.project_id; progress 0.0 is sent to it
Generate(r, prompts) ==
    /\ generations[r].pc = "idle"
    /\ Yields(r)
    /\ \E request_prompt \in prompts, project_id \in ProjectIds :
           LET design_intent ==
                   analyze_prompt(engine, request_prompt, hashseed).value
           IN  /\ generations' =
                      [generations EXCEPT
                           ![r].pc = "progress_0",
                           ![r].prompt = request_prompt,
                           ![r].project_id = project_id,
                           ![r].style_preferences = design_intent.style_preferences,
                           ![r].complexity = design_intent.complexity]
               /\ StartSend(r, send_generation_progress(0), project_id)
    /\ UNCHANGED <<engine, hashseed, pc, locals, pinned, calls, broken, personal,
                   sent, current_project_id>>

\* orchestrate_ui_generation: self.current_project_id = project_id, and on
\* to _execute_crew_with_updates, which sends progress 0.25 to
\* self.current_project_id
Orchestrate(r) ==
    /\ Running(r)
    /\ generations[r].pc = "progress_0"
    /\ current_project_id' = generations[r].project_id
    /\ StartSend(r, send_generation_progress(25), current_project_id')
    /\ Stage(r, "progress_25")
    /\ UNCHANGED <<engine, hashseed, pc, locals, pinned, calls, broken, personal,
                   sent>>

\* result = await crew.kickoff_async()
Kickoff(r) ==
    /\ Running(r)
    /\ generations[r].pc = "progress_25"
    /\ sends' = [sends EXCEPT ![r] = NoSend]
    /\ Stage(r, "kickoff")
    /\ UNCHANGED <<engine, hashseed, pc, locals, pinned, calls, manager, broken,
                   personal, sent, current_project_id>>

\* kickoff_async returns or raises: progress 0.9 is sent to
\* self.current_project_id as it is now, or _broadcast_error broadcasts to
\* all clients
KickoffReturns(r) ==
    /\ generations[r].pc = "kickoff"
    /\ Yields(r)
    /\ \E outcome \in {"return", "raise"} :
           /\ generations' =
                  [generations EXCEPT
                       ![r].pc = AfterKickoff(outcome),
                       ![r].exc = IF outcome = "raise" THEN "Exception" ELSE ""]
           /\ IF AfterKickoff(outcome) = "progress_90"
              THEN StartSend(r, send_generation_progress(90), current_project_id)
              ELSE StartSend(r, send_error, NoneId)
    /\ UNCHANGED <<engine, hashseed, pc, locals, pinned, calls, broken, personal,
                   sent, current_project_id>>

\* _process_crew_result: await self._extract_code_from_result(...)
ExtractCode(r) ==
    /\ Running(r)
    /\ generations[r].pc = "progress_90"
    /\ sends' = [sends EXCEPT ![r] = NoSend]
    /\ Stage(r, "extract_code")
    /\ UNCHANGED <<engine, hashseed, pc, locals, pinned, calls, manager, broken,
                   personal, sent, current_project_id>>

\* await self._extract_preview_from_result(...); like the one before, it
\* catches what its calls raise
ExtractPreview(r) ==
    /\ generations[r].pc = "extract_code"
    /\ Yields(r)
    /\ Stage(r, "extract_preview")
    /\ UNCHANGED <<engine, hashseed, pc, locals, pinned, calls, manager, broken,
                   personal, sends, sent, current_project_id>>

\* the dict of _process_crew_result, returned through
\* _execute_crew_with_updates and orchestrate_ui_generation to
\* generate_ui_advanced, which sends generation_complete to project_id
ProcessCrewResult(r) ==
    /\ generations[r].pc = "extract_preview"
    /\ Yields(r)
    /\ generations' =
           [generations EXCEPT
                ![r].pc = "complete",
                ![r].generation_result =
                    [request_id |-> current_project_id,
                     novelty |-> Novelty(generations[r]),
                     status |-> "completed"]]
    /\ StartSend(r, send_generation_complete, generations[r].project_id)
    /\ UNCHANGED <<engine, hashseed, pc, locals, pinned, calls, broken, personal,
                   sent, current_project_id>>

\* return UIGenerationResponse(request_id=generation_result["request_id"],
\* metrics=generation_result["metrics"], ...)
Return(r) ==
    /\ Running(r)
    /\ generations[r].pc = "complete"
    /\ generations' =
           [generations EXCEPT ![r].pc = "returned",
                               ![r].response = generations[r].generation_result]
    /\ sends' = [sends EXCEPT ![r] = NoSend]
    /\ UNCHANGED <<engine, hashseed, pc, locals, pinned, calls, manager, broken,
                   personal, sent, current_project_id>>

\* the raise of _execute_crew_with_updates reaches the except clause of
\* orchestrate_ui_generation: _broadcast_error again
OrchestrateExcept(r) ==
    /\ Running(r)
    /\ generations[r].pc = "error_1"
    /\ StartSend(r, send_error, NoneId)
    /\ Stage(r, "error_2")
    /\ UNCHANGED <<engine, hashseed, pc, locals, pinned, calls, broken, personal,
                   sent, current_project_id>>

\* the raise of orchestrate_ui_generation reaches the except clause of
\* generate_ui_advanced: send_error(..., project_id=project_id)
GenerateExcept(r) ==
    /\ Running(r)
    /\ generations[r].pc = "error_2"
    /\ StartSend(r, send_error, generations[r].project_id)
    /\ Stage(r, "error_3")
    /\ UNCHANGED <<engine, hashseed, pc, locals, pinned, calls, broken, personal,
                   sent, current_project_id>>

\* the raise that ends the except clause of generate_ui_advanced
Reraise(r) ==
    /\ Running(r)
    /\ generations[r].pc = "error_3"
    /\ sends' = [sends EXCEPT ![r] = NoSend]
    /\ Stage(r, "raised")
    /\ UNCHANGED <<engine, hashseed, pc, locals, pinned, calls, manager, broken,
                   personal, sent, current_project_id>>

\* one prompt with the default style and one with four styles
GenPrompts == {StrPrompt("hi", 0), StrPrompt("raw dark blur white", 0)}

\* c1 has connected with project p1 and c2 with p2, and both got their
\* welcome
GenRegistry == connect(connect(NewManager, "c1", "p1"), "c2", "p2")

InitGen == InitAt({NewEngine}, GenRegistry)

NextGen ==
    \E r \in GenerationIds :
        \/ Generate(r, GenPrompts)
        \/ Orchestrate(r)
        \/ Kickoff(r)
        \/ KickoffReturns(r)
        \/ ExtractCode(r)
        \/ ExtractPreview(r)
        \/ ProcessCrewResult(r)
        \/ Return(r)
        \/ OrchestrateExcept(r)
        \/ GenerateExcept(r)
        \/ Reraise(r)
        \/ ResumeSend(r)

SpecGen == InitGen /\ [][NextGen]_vars

(***************************************************************************)
(* Properties.                                                             *)
(***************************************************************************)
\* analyze_prompt returned from its try block
ReturnedNormally == pc = "returned" /\ exc = ""

\* analyze_prompt returned from its except clause
ReturnedFallback == pc = "returned" /\ exc # ""

EmptyPrompt == StrPrompt("", 0)

\* C1: for every non-empty prompt the returned complexity and confidence
\* lie in [0, 1], on the normal path (complexity has no lower clamp) and on
\* the fallback path
C1_ScoresInUnitInterval ==
    (pc = "returned" /\ prompt # EmptyPrompt) =>
        /\ 0 <= result.complexity /\ result.complexity <= 1000
        /\ 0 <= result.confidence /\ result.confidence <= 1000
        /\ (exc = "" => 0 <= base_complexity)

\* C1's case: a non-empty prompt whose sum exceeds 1.0 and is clamped
C1_Witness ==
    /\ ReturnedNormally
    /\ prompt.text # ""
    /\ base_complexity > 1000
    /\ result.complexity = 1000

\* C2: whenever a step of analyze_prompt raises, analyze_prompt returns
\* exactly the fixed default and no exception reaches its caller, whose own
\* default is therefore never the outcome
C2_FallbackIsTotal ==
    /\ pc # "propagated"
    /\ (exc # "" /\ pc \in {"returned", "responded"}) =>
           result = _get_default_analysis
    /\ (exc # "" /\ pc = "responded") => response = _get_default_analysis
    /\ response # AdvancedDefault

\* C2's case: building the response raised and the default was returned
C2_Witness ==
    /\ pc = "responded"
    /\ exc = "ValidationError"
    /\ response.confidence = 300

\* C3 as stated: every prompt containing "dashboard" yields page_type
\* "dashboard", whatever other keywords it contains
C3_DashboardAlways ==
    (pc = "returned" /\ prompt.kind = "str"
     /\ StrContains("dashboard", prompt.text)) =>
        result.page_type = "dashboard"

AuthenticationKeywords ==
    DictGet(_initialize_design_patterns, "authentication").keywords

\* C3 amended: every prompt containing "dashboard" and, in its lower-cased
\* form, none of the authentication keywords yields page_type "dashboard"
C3_DashboardUnlessAuthentication ==
    (pc = "returned" /\ prompt.kind = "str"
     /\ StrContains("dashboard", prompt.text)
     /\ ~AnyKeyword(AuthenticationKeywords, PromptLower(prompt))) =>
        result.page_type = "dashboard"

\* C3's case: "dashboard" beside the keyword of another page type
C3_Witness ==
    /\ ReturnedNormally
    /\ StrContains("dashboard", prompt.text)
    /\ Len(entities.page_types) >= 2
    /\ result.page_type = "dashboard"

CatalogOrder ==
    <<"authentication", "dashboard", "landing", "ecommerce", "blog",
      "portfolio", "contact">>

\* whether a keyword of the page type stands in the lower-cased prompt
PageTypeMatches(page_type) ==
    AnyKeyword(DictGet(_initialize_design_patterns, page_type).keywords,
               PromptLower(prompt))

\* C4: page_type is the matched page type that comes first in the catalog's
\* insertion order, wherever the keywords stand in the prompt, and
\* "landing" when no page type matches
C4_FirstInCatalogOrder ==
    ReturnedNormally =>
        IF \E i \in 1..Len(CatalogOrder) : PageTypeMatches(CatalogOrder[i])
        THEN \E i \in 1..Len(CatalogOrder) :
                 /\ PageTypeMatches(CatalogOrder[i])
                 /\ \A j \in 1..(i - 1) : ~PageTypeMatches(CatalogOrder[j])
                 /\ result.page_type = CatalogOrder[i]
        ELSE result.page_type = "landing"

\* C4's case: "shop" stands before "dashboard" in the prompt
C4_Witness ==
    /\ ReturnedNormally
    /\ prompt.text = "shop dashboard"
    /\ entities.page_types = <<"dashboard", "ecommerce">>
    /\ result.page_type = "dashboard"

\* the long-prompt term: what the prompt's length added to the sum
LongPromptTerm == base_complexity - ComplexityBeforeLength(engine, intent)

\* C5: the long-prompt term is +0.1 for 51 to 100 words and +0.2 for more
\* than 100 words (a 120-word prompt gets +0.2)
C5_LongPromptTerm ==
    ReturnedNormally =>
        /\ (WordCount(prompt) \in 51..100 => LongPromptTerm = 100)
        /\ (WordCount(prompt) > 100 => LongPromptTerm = 200)

\* C6: the long-prompt bonus is strict: exactly 50 words get no bonus,
\* exactly 51 words get +0.1 (before clamping)
C6_StrictFifty ==
    ReturnedNormally =>
        /\ (WordCount(prompt) = 50 => LongPromptTerm = 0)
        /\ (WordCount(prompt) = 51 => LongPromptTerm = 100)

\* C6's case: 51 words, the bonus visible in the returned complexity
C6_Witness ==
    /\ ReturnedNormally
    /\ WordCount(prompt) = 51
    /\ LongPromptTerm = 100
    /\ result.complexity = base_complexity

\* a response with brand_personality as a set
AsSet(r) == [r EXCEPT !.brand_personality = Range(@)]

\* C7: two calls with the identical prompt return identical records
\* (brand_personality compared as a set), whatever was analyzed in between
C7_Deterministic ==
    (pc = "responded" /\ pinned.called /\ pinned.prompt = prompt) =>
        AsSet(response) = AsSet(pinned.response)

\* C7's case: the same prompt again, after another call in between
C7_Witness ==
    /\ pc = "responded"
    /\ pinned.called
    /\ pinned.between
    /\ pinned.prompt = prompt
    /\ prompt.kind = "str"
    /\ Len(response.brand_personality) >= 2

\* C8: components, brand_personality, style_preferences,
\* functional_requirements and technical_requirements are never empty, on
\* the normal path and on the fallback path
C8_NonEmptyLists ==
    pc = "returned" =>
        /\ result.components # <<>>
        /\ result.brand_personality # <<>>
        /\ result.style_preferences # <<>>
        /\ result.functional_requirements # <<>>
        /\ result.technical_requirements # <<>>

\* C8's case: a prompt with nothing detected, every list from its default
C8_Witness ==
    /\ ReturnedNormally
    /\ prompt.text # ""
    /\ entities.styles = <<>>
    /\ entities.functional = <<>>
    /\ entities.technical = <<>>
    /\ result.brand_personality = <<"friendly", "approachable">>

\* b is a with one more element
OneMore(a, b) == Len(b) = Len(a) + 1 /\ Range(a) \subseteq Range(b)

\* the call at hand detected what the pinned call detected and one more
\* functional or one more technical requirement
OneMoreRequirement ==
    /\ pinned.entities.page_types = entities.page_types
    /\ pinned.entities.styles = entities.styles
    /\ pinned.entities.domains = entities.domains
    /\ \/ /\ OneMore(pinned.entities.functional, entities.functional)
          /\ pinned.entities.technical = entities.technical
       \/ /\ OneMore(pinned.entities.technical, entities.technical)
          /\ pinned.entities.functional = entities.functional

\* C9: complexity does not decrease when one more functional or technical
\* requirement is detected (also from none detected to one), all else equal
C9_MonotoneInRequirements ==
    (pc = "responded" /\ exc = "" /\ pinned.called /\ OneMoreRequirement) =>
        response.complexity >= pinned.response.complexity

\* C10: the style, functional and technical terms count detected entities
\* only: 0.1 times the weight of each detected style, 0.08 per detected
\* functional key and 0.06 per detected technical key, zero when nothing
\* is detected
C10_DetectedEntitiesOnly ==
    ReturnedNormally =>
        base_complexity
        - PageComplexity(engine, intent.page_type)
        - (Len(intent.components) - 3) * 50
        - LengthTerm(WordCount(prompt))
        = StyleComplexity(engine, entities.styles)
          + 80 * Len(entities.functional)
          + 60 * Len(entities.technical)

\* whether a keyword of some key of the table stands in the lower-cased
\* prompt
MatchesAny(table, lower) ==
    \E entry \in Range(table) :
        \E keyword \in Range(entry.keywords) : InLower(keyword, lower)

\* whether one of the intent verbs stands in the lower-cased prompt
HasIntentVerb(lower) ==
    \E verb \in {"create", "build", "design", "make", "generate"} :
        InLower(verb, lower)

Bonus(condition, amount) == IF condition THEN amount ELSE 0

\* C11: on the normal path confidence is min(1.0, 0.5 + 0.3 for a matched
\* page type + 0.2 for a matched style + 0.1 for a matched domain + 0.1 for
\* more than 10 words + a further 0.1 for more than 25 words + 0.1 for an
\* intent verb in the lower-cased prompt)
C11_ConfidenceSum ==
    ReturnedNormally =>
        LET lower == PromptLower(prompt)
            words == WordCount(prompt)
        IN  result.confidence =
                Min(1000,
                    500
                    + Bonus(MatchesAny(_initialize_design_patterns, lower), 300)
                    + Bonus(MatchesAny(_initialize_style_guides, lower), 200)
                    + Bonus(MatchesAny(_initialize_domain_knowledge, lower), 100)
                    + Bonus(words > 10, 100)
                    + Bonus(words > 25, 100)
                    + Bonus(HasIntentVerb(lower), 100))

\* C11's case: 26 words and nothing else: both word-count bonuses, 0.7
C11_Witness ==
    /\ ReturnedNormally
    /\ WordCount(prompt) = 26
    /\ entities.page_types = <<>>
    /\ result.confidence = 700

\* whether no keyword of the five catalogs stands in the lower-cased prompt
NoCatalogKeyword(lower) ==
    /\ ~MatchesAny(_initialize_design_patterns, lower)
    /\ ~MatchesAny(_initialize_style_guides, lower)
    /\ ~MatchesAny(_initialize_domain_knowledge, lower)
    /\ ~MatchesAny(functional_patterns, lower)
    /\ ~MatchesAny(technical_patterns, lower)

\* C12: a prompt of at most 10 words with no catalog keyword and no intent
\* verb yields page_type "landing", style_preferences ["modern"],
\* business_domain "general" and confidence exactly 0.5
C12_NothingDetected ==
    (/\ pc = "returned"
     /\ prompt.kind = "str"
     /\ WordCount(prompt) <= 10
     /\ NoCatalogKeyword(PromptLower(prompt))
     /\ ~HasIntentVerb(PromptLower(prompt))) =>
        /\ result.page_type = "landing"
        /\ result.style_preferences = <<"modern">>
        /\ result.business_domain = "general"
        /\ result.confidence = 500

\* C12's case: the prompt "hi"
C12_Witness ==
    /\ ReturnedNormally
    /\ prompt = StrPrompt("hi", 0)
    /\ tokens = <<>>
    /\ result.page_type = "landing"
    /\ result.confidence = 500

\* C13: a returned result has confidence <= 0.3 exactly when it comes from
\* the fallback path, and every result of the normal path has confidence
\* >= 0.5
C13_ConfidenceTellsFallback ==
    pc = "returned" =>
        /\ (result.confidence <= 300 <=> exc # "")
        /\ (exc = "" => result.confidence >= 500)

\* C13's case: a lookup failed and the result carries confidence 0.3
C13_Witness ==
    /\ ReturnedFallback
    /\ exc = "IndexError"
    /\ prompt.kind = "str"
    /\ result.confidence = 300

\* the catalog entry of the returned page type
ReturnedPattern == DictGet(_initialize_design_patterns, result.page_type)

\* C14 as stated: for every DesignIntent that analyze_prompt returns,
\* components is the component list of the catalog entry of the returned
\* page_type and layout is the first layout option of that entry
C14_ComponentsFromCatalog ==
    pc = "returned" =>
        /\ result.components = ReturnedPattern.components
        /\ result.layout = ReturnedPattern.layouts[1]

\* C14 amended: for every DesignIntent returned by an analysis that
\* completed without internal error, components and layout are those of the
\* catalog entry of the returned page_type; the fallback returns its own
\* fixed components
C14_ComponentsFromCatalogUnlessFallback ==
    /\ ReturnedNormally =>
           /\ result.components = ReturnedPattern.components
           /\ result.layout = ReturnedPattern.layouts[1]
    /\ ReturnedFallback =>
           /\ result.components = <<"header", "hero", "features", "footer">>
           /\ result.layout = "single_column"

\* C14's case: a page type other than the default one
C14_Witness ==
    /\ ReturnedNormally
    /\ result.page_type = "ecommerce"
    /\ result.components = <<"product_grid", "filters", "cart", "checkout", "reviews">>
    /\ result.layout = "grid_sidebar"

\* the keys of a table, in insertion order
KeysOf(table) == [i \in 1..Len(table) |-> table[i].key]

\* the keys of the table that have a keyword in the lower-cased prompt, in
\* insertion order, each once
MatchingKeys(table, lower) ==
    SelectSeq(KeysOf(table),
              LAMBDA key : \E keyword \in Range(DictGet(table, key).keywords) :
                               InLower(keyword, lower))

\* _extract_entities has returned in the call at hand
Extracted ==
    \/ pc \in {"classify", "complexity", "confidence", "build"}
    \/ ReturnedNormally

\* C15: for each of the five catalogs the extracted list is exactly the
\* keys with at least one keyword in the lower-cased prompt, each once and
\* in catalog insertion order
C15_ExactlyMatchingKeys ==
    Extracted =>
        LET lower == PromptLower(prompt)
        IN  /\ entities.page_types = MatchingKeys(_initialize_design_patterns, lower)
            /\ entities.styles = MatchingKeys(_initialize_style_guides, lower)
            /\ entities.domains = MatchingKeys(_initialize_domain_knowledge, lower)
            /\ entities.functional = MatchingKeys(functional_patterns, lower)
            /\ entities.technical = MatchingKeys(technical_patterns, lower)

\* C15's case: "Minimalist" holds two keywords of minimalist and stands
\* after "dark", whose key comes later in the catalog
C15_Witness ==
    /\ pc = "classify"
    /\ prompt.text = "dark Minimalist"
    /\ entities.styles = <<"minimalist", "dark">>
    /\ entities.page_types = <<>>

\* the detected keys of a table, or the default when none is detected
DetectedOr(table, default) ==
    LET detected == MatchingKeys(table, PromptLower(prompt))
    IN  IF detected = <<>> THEN default ELSE detected

\* C16: style_preferences, functional_requirements and
\* technical_requirements are the detected keys, or ["modern"],
\* ["responsive"], ["react_nextjs", "tailwind"] when none is detected; a
\* default is never mixed with detected keys
C16_DetectedOrDefault ==
    ReturnedNormally =>
        /\ result.style_preferences =
               DetectedOr(_initialize_style_guides, <<"modern">>)
        /\ result.functional_requirements =
               DetectedOr(functional_patterns, <<"responsive">>)
        /\ result.technical_requirements =
               DetectedOr(technical_patterns, <<"react_nextjs", "tailwind">>)

\* C16's case: a detected style and a detected technical key beside the
\* default functional requirement
C16_Witness ==
    /\ ReturnedNormally
    /\ entities.functional = <<>>
    /\ result.style_preferences = <<"dark">>
    /\ result.functional_requirements = <<"responsive">>
    /\ result.technical_requirements = <<"api_integration">>

\* C17: target_audience is the audience field of the first detected
\* domain's entry when a domain was detected; otherwise the first key of
\* the audience-keyword table with a keyword in the lower-cased prompt, and
\* "general" when none has
C17_AudienceFromDomainFirst ==
    ReturnedNormally =>
        LET lower == PromptLower(prompt)
            domains == MatchingKeys(_initialize_domain_knowledge, lower)
            audiences == MatchingKeys(audience_patterns, lower)
        IN  result.target_audience =
                IF domains # <<>>
                THEN DictGet(_initialize_domain_knowledge, domains[1]).audience
                ELSE IF audiences # <<>> THEN audiences[1]
                ELSE "general"

\* C17's case: no domain, and "user" (consumers) stands before "code"
\* (developers, the earlier key)
C17_Witness ==
    /\ ReturnedNormally
    /\ prompt.text = "user code"
    /\ entities.domains = <<>>
    /\ result.target_audience = "developers"

\* the traits the style-to-trait mapping gives a style
TraitsOfStyle(style) ==
    IF DictHas(style_personalities, style)
    THEN Range(DictGet(style_personalities, style).traits)
    ELSE {}

\* the characteristic traits of a domain
TraitsOfDomain(domain) ==
    IF DictHas(_initialize_domain_knowledge, domain)
    THEN Range(DictGet(_initialize_domain_knowledge, domain).characteristics)
    ELSE {}

\* the union of the traits of the returned styles and the returned domain
ReturnedTraits ==
    UNION {TraitsOfStyle(style) : style \in Range(result.style_preferences)}
    \cup TraitsOfDomain(result.business_domain)

\* C18: brand_personality is the duplicate-free union of the traits of
\* every resolved style and of the resolved domain, and it is
\* ["friendly", "approachable"] exactly when that union is empty
C18_PersonalityIsUnion ==
    ReturnedNormally =>
        /\ ReturnedTraits # {} =>
               /\ Range(result.brand_personality) = ReturnedTraits
               /\ Len(result.brand_personality) = Cardinality(ReturnedTraits)
        /\ ReturnedTraits = {} <=>
               result.brand_personality = <<"friendly", "approachable">>

\* C18's case: minimalist and dark share "sophisticated", which is
\* returned once
C18_Witness ==
    /\ ReturnedNormally
    /\ result.style_preferences = <<"minimalist", "dark">>
    /\ result.business_domain = "general"
    /\ Len(result.brand_personality) = 5

\* C19: under every interleaving of the callers' steps, each call returns
\* the DesignIntent that analyze_prompt returns for its prompt when run
\* alone on the engine as constructed, and no exception leaves a call
C19_AsIfAlone ==
    \A c \in Callers :
        /\ calls[c].pc # "propagated"
        /\ calls[c].pc = "returned" =>
               Ok(calls[c].result)
               = analyze_prompt(NewEngine, calls[c].prompt, hashseed)

\* C19's case: one call has returned while another call, with another
\* prompt, stands between its steps
C19_Witness ==
    \E c, d \in Callers :
        /\ calls[c].pc = "returned"
        /\ calls[c].result.page_type = "ecommerce"
        /\ calls[d].pc = "complexity"
        /\ calls[d].prompt = StrPrompt("shop dashboard", 0)
        /\ calls[d].intent.page_type = "dashboard"

\* C20: on every path, the fallback path included, and after any sequence
\* of calls, the four knowledge tables equal their values at construction
C20_TablesUnchanged == engine = NewEngine

\* C20's case: a call has returned from the fallback path after an
\* earlier call returned from the normal path
C20_Witness ==
    /\ ReturnedFallback
    /\ pinned.called
    /\ pinned.prompt.kind = "str"
    /\ pinned.response.page_type = "dashboard"

\* the keys of the table with a keyword contained in the text
KeysContainedIn(table, text) ==
    {table[i].key : i \in {j \in 1..Len(table) :
                              \E keyword \in Range(table[j].keywords) :
                                  StrContains(keyword, text)}}

\* C21: a key is detected exactly when one of its keywords is a substring of
\* the lower-cased original prompt, whatever the token list holds: the
\* detection is the one made with no token at all
C21_MatchesOriginalNotTokens ==
    Extracted =>
        LET original == StrLower(prompt.text)
        IN  /\ entities = _extract_entities(engine, <<>>, prompt).value
            /\ Range(entities.page_types) =
                   KeysContainedIn(_initialize_design_patterns, original)
            /\ Range(entities.styles) =
                   KeysContainedIn(_initialize_style_guides, original)
            /\ Range(entities.domains) =
                   KeysContainedIn(_initialize_domain_knowledge, original)
            /\ Range(entities.functional) =
                   KeysContainedIn(functional_patterns, original)
            /\ Range(entities.technical) =
                   KeysContainedIn(technical_patterns, original)

\* C21's case: "in" is no token, and authentication is detected by "sign in"
C21_Witness ==
    /\ pc = "classify"
    /\ prompt.text = "Sign in"
    /\ tokens = <<"sign">>
    /\ entities.page_types = <<"authentication">>

\* the project groups that hold the client
GroupsOf(self, c) ==
    {p \in DOMAIN self.project_connections : c \in self.project_connections[p]}

\* C22: after disconnect(c) of a registered client, c is a member of no
\* set of project_connections
C22_DisconnectLeavesNoGroup ==
    [][\A c \in Clients :
           (c \in Range(manager.active_connections)
            /\ manager' = disconnect(manager, c))
           => GroupsOf(manager', c) = {}]_vars

\* C27: a broadcast or broadcast_to_project suspended at a send while the
\* registry is changed by another coroutine still completes without error
C27_BroadcastCompletes == \A t \in Broadcasters : sends[t].pc # "raised"

\* the clients the suspended loop of the frame is to send to
Targets(self, send) ==
    IF send.kind = "all" THEN Members(self, send)
    ELSE Members(self, send) \cap Range(self.active_connections)

\* the clients of the log with a send_text of the given outcome
SentTo(log, raised) ==
    {log[i].client_id : i \in {j \in 1..Len(log) : log[j].raised = raised}}

C29_RegistryConsistent ==
    /\ Range(manager.active_connections) = DOMAIN manager.connection_metadata
    /\ \A p \in DOMAIN manager.project_connections :
           manager.project_connections[p] # {}

\* C29's case: a broadcast found a client's socket broken and removed the
\* client, the last of its project, while another client stays registered
C29_Witness ==
    /\ sends["b1"].pc = "done"
    /\ \E i \in 1..Len(sent["b1"]) :
           /\ sent["b1"][i].raised
           /\ sent["b1"][i].client_id \notin Range(manager.active_connections)
    /\ manager.active_connections # <<>>
    /\ DOMAIN manager.project_connections = {}
    /\ DOMAIN manager.connection_metadata # {}

\* the clients of the project's group
Group(project_id) ==
    IF project_id \in DOMAIN manager.project_connections
    THEN manager.project_connections[project_id]
    ELSE {}

\* C23: each message sent on behalf of a generation goes to a client of
\* the group of the generation's project
C23_OnlyToOwnGroup ==
    \A r \in GenerationIds :
        \A i \in 1..Len(sent[r]) :
            sent[r][i].client_id \in Group(generations[r].project_id)

\* C24: the response of a call carries the call's own project_id as
\* request_id, and the call's progress messages 0.25 and 0.9 go to clients
\* of its own project's group, however two calls interleave
C24_OwnProjectThroughout ==
    \A r \in GenerationIds :
        /\ generations[r].pc = "returned" =>
               generations[r].response.request_id = generations[r].project_id
        /\ \A i \in 1..Len(sent[r]) :
               sent[r][i].message \in {send_generation_progress(25),
                                       send_generation_progress(90)}
               => sent[r][i].client_id \in Group(generations[r].project_id)

\* the messages the call's sends delivered to the client, in order
Received(r, c) ==
    LET to_client == SelectSeq(sent[r],
                               LAMBDA entry : entry.client_id = c /\ ~entry.raised)
    IN  [i \in 1..Len(to_client) |-> to_client[i].message]

\* what a client of the project receives from a successful generation
SuccessMessages ==
    << send_generation_progress(0), send_generation_progress(25),
       send_generation_progress(90),
       [type |-> "generation_complete", progress |-> 0] >>

\* the call runs and no other call was made
Alone(r) == \A other \in GenerationIds \ {r} : generations[other].pc = "idle"

\* C25: in a successful generation that runs alone, a client of the
\* project has received, at each moment, the first messages of: progress
\* 0.0, 0.25, 0.9, generation_complete; and all four when the call returned
C25_MessagesInOrder ==
    \A r \in GenerationIds :
        (Alone(r) /\ generations[r].exc = "") =>
            \A c \in Group(generations[r].project_id) :
                /\ Len(Received(r, c)) <= Len(SuccessMessages)
                /\ Received(r, c) = SubSeq(SuccessMessages, 1, Len(Received(r, c)))
                /\ generations[r].pc = "returned" =>
                       Received(r, c) = SuccessMessages

\* C25's case: r1 ran alone for p1 and returned, and c1 got four messages
C25_Witness ==
    /\ generations["r1"].pc = "returned"
    /\ generations["r1"].project_id = "p1"
    /\ Alone("r1")
    /\ Len(Received("r1", "c1")) = 4
    /\ Received("r1", "c1")[4].type = "generation_complete"

\* the types and progress values of the messages the call sent
SentMessages(r) == {sent[r][i].message : i \in 1..Len(sent[r])}

\* C26: a call whose crew raised sends no generation_complete and no
\* progress 0.9, does not return a response, and has sent an error
\* notification when its exception leaves generate_ui_advanced
C26_CrewFailurePropagates ==
    \A r \in GenerationIds :
        generations[r].exc # "" =>
            /\ generations[r].pc \in {"error_1", "error_2", "error_3", "raised"}
            /\ generations[r].response = NoGeneration.response
            /\ \A m \in SentMessages(r) :
                   /\ m.type # "generation_complete"
                   /\ m # send_generation_progress(90)
            /\ generations[r].pc = "raised" =>
                   \E m \in SentMessages(r) : m.type = "error"

\* C26's case: the crew of r1 raised after progress 0.25 and the exception
\* left generate_ui_advanced
C26_Witness ==
    /\ generations["r1"].pc = "raised"
    /\ generations["r1"].exc = "Exception"
    /\ send_generation_progress(25) \in SentMessages("r1")
    /\ send_error \in SentMessages("r1")

\* C30: metrics["novelty"] of _process_crew_result is at most 0.95
C30_NoveltyWithinCap ==
    \A r \in GenerationIds : generations[r].generation_result.novelty <= 950


=============================================================================
